---------------------------- MODULE Spec2Model ----------------------------
(***************************************************************************)
(* Model of the keyword-intelligence core of article-automation:           *)
(*   - TopicClusterService   (src/src/services/topic-cluster.ts)           *)
(*   - topic-diversity utils (src/unnamed/part_004)                        *)
(*   - TrendsService topic selection (src/unnamed/part_008)                *)
(*                                                                         *)
(* Strings are sequences of one-character strings, so that toLowerCase,    *)
(* the regular-expression replacements and split(/\s+/) are computed the   *)
(* way the source computes them.  Scores are exact fractions [n, d]; the   *)
(* comparisons of the source are cross-multiplied.                         *)
(***************************************************************************)
EXTENDS Integers, Sequences, FiniteSets, TLC

(***************************************************************************)
(* Characters and strings                                                  *)
(***************************************************************************)
UpperChars ==
  <<"A","B","C","D","E","F","G","H","I","J","K","L","M",
    "N","O","P","Q","R","S","T","U","V","W","X","Y","Z">>

LowerChars ==
  <<"a","b","c","d","e","f","g","h","i","j","k","l","m",
    "n","o","p","q","r","s","t","u","v","w","x","y","z">>

DigitChars == {"0","1","2","3","4","5","6","7","8","9"}

\* the characters matched by \s that occur in the modelled texts
SpaceChars == {" ", "\t", "\n"}

Range(s) == {s[i] : i \in DOMAIN s}

\* String.prototype.toLowerCase, one character
lowerChar(c) ==
  IF \E i \in DOMAIN UpperChars : UpperChars[i] = c
  THEN LowerChars[CHOOSE i \in DOMAIN UpperChars : UpperChars[i] = c]
  ELSE c

\* String.prototype.toLowerCase
toLowerCase(s) == [i \in DOMAIN s |-> lowerChar(s[i])]

\* the regular-expression class \w
WordChars == Range(LowerChars) \cup Range(UpperChars) \cup DigitChars \cup {"_"}

isWordChar(c) == c \in WordChars

\* String.prototype.split(/\s+/): a run of white space separates two
\* pieces; a leading or trailing run leaves an empty piece at that end.
RECURSIVE splitFrom(_, _, _, _)
splitFrom(s, i, cur, acc) ==
  IF i > Len(s) THEN Append(acc, cur)
  ELSE IF s[i] \in SpaceChars
       THEN IF i > 1 /\ s[i-1] \in SpaceChars
            THEN splitFrom(s, i + 1, cur, acc)
            ELSE splitFrom(s, i + 1, <<>>, Append(acc, cur))
       ELSE splitFrom(s, i + 1, Append(cur, s[i]), acc)

splitWhitespace(s) == splitFrom(s, 1, <<>>, <<>>)

\* Array.prototype.flatMap over a list of lists
RECURSIVE flatten(_)
flatten(ss) == IF ss = <<>> THEN <<>> ELSE Head(ss) \o flatten(Tail(ss))

\* [...new Set(list)]: the distinct entries in order of first occurrence
RECURSIVE uniqueFrom(_, _, _)
uniqueFrom(s, i, acc) ==
  IF i > Len(s) THEN acc
  ELSE uniqueFrom(s, i + 1, IF s[i] \in Range(acc) THEN acc ELSE Append(acc, s[i]))

unique(s) == uniqueFrom(s, 1, <<>>)

\* Array.prototype.slice(0, n)
sliceTo(s, n) == SubSeq(s, 1, IF Len(s) < n THEN Len(s) ELSE n)

(***************************************************************************)
(* Exact fractions                                                         *)
(***************************************************************************)
Frac(n, d) == [n |-> n, d |-> d]
FracGt(a, b) == a.n * b.d > b.n * a.d
FracGe(a, b) == a.n * b.d >= b.n * a.d

\* stop words of TopicClusterService.extractKeywords
ClusterStopWords ==
  {
     <<"t","h","e">>, <<"a">>, <<"a","n">>, <<"a","n","d">>, <<"o","r">>, <<"b","u","t">>,
     <<"i","n">>, <<"o","n">>, <<"a","t">>, <<"t","o">>, <<"f","o","r">>, <<"o","f">>,
     <<"w","i","t","h">>, <<"b","y">>, <<"i","s">>, <<"a","r","e">>, <<"w","a","s">>,
     <<"w","e","r","e">>, <<"b","e">>, <<"b","e","e","n">>, <<"b","e","i","n","g">>,
     <<"h","a","v","e">>, <<"h","a","s">>, <<"h","a","d">>, <<"d","o">>, <<"d","o","e","s">>,
     <<"d","i","d">>, <<"w","i","l","l">>, <<"w","o","u","l","d">>, <<"c","o","u","l","d">>,
     <<"s","h","o","u","l","d">>, <<"m","a","y">>, <<"m","i","g","h","t">>, <<"c","a","n">>,
     <<"t","h","i","s">>, <<"t","h","a","t">>, <<"t","h","e","s","e">>, <<"t","h","o","s","e">>,
     <<"i","t">>, <<"i","t","s">>, <<"h","o","w">>, <<"w","h","a","t">>, <<"w","h","e","n">>,
     <<"w","h","e","r","e">>, <<"w","h","y">>, <<"w","h","i","c","h">>, <<"w","h","o">>,
     <<"n","o","t">>, <<"n","o">>, <<"n","o","r">>, <<"f","r","o","m">>, <<"u","p">>,
     <<"a","b","o","u","t">>, <<"i","n","t","o">>, <<"o","v","e","r">>, <<"a","f","t","e","r">> }

\* STOP_WORDS of the topic-diversity utilities
STOP_WORDS ==
  {
     <<"a">>, <<"a","n">>, <<"t","h","e">>, <<"i","s">>, <<"a","r","e">>, <<"w","a","s">>,
     <<"w","e","r","e">>, <<"b","e">>, <<"b","e","e","n">>, <<"b","e","i","n","g">>,
     <<"h","a","v","e">>, <<"h","a","s">>, <<"h","a","d">>, <<"d","o">>, <<"d","o","e","s">>,
     <<"d","i","d">>, <<"w","i","l","l">>, <<"w","o","u","l","d">>, <<"c","o","u","l","d">>,
     <<"s","h","o","u","l","d">>, <<"m","a","y">>, <<"m","i","g","h","t">>, <<"m","u","s","t">>,
     <<"s","h","a","l","l">>, <<"c","a","n">>, <<"n","e","e","d">>, <<"d","a","r","e">>,
     <<"o","u","g","h","t">>, <<"u","s","e","d">>, <<"t","o">>, <<"o","f">>, <<"i","n">>,
     <<"f","o","r">>, <<"o","n">>, <<"w","i","t","h">>, <<"a","t">>, <<"b","y">>,
     <<"f","r","o","m">>, <<"a","s">>, <<"i","n","t","o">>, <<"t","h","r","o","u","g","h">>,
     <<"d","u","r","i","n","g">>, <<"b","e","f","o","r","e">>, <<"a","f","t","e","r">>,
     <<"a","b","o","v","e">>, <<"b","e","l","o","w">>, <<"b","e","t","w","e","e","n">>,
     <<"u","n","d","e","r">>, <<"a","g","a","i","n">>, <<"f","u","r","t","h","e","r">>,
     <<"t","h","e","n">>, <<"o","n","c","e">>, <<"h","e","r","e">>, <<"t","h","e","r","e">>,
     <<"w","h","e","n">>, <<"w","h","e","r","e">>, <<"w","h","y">>, <<"h","o","w">>,
     <<"a","l","l">>, <<"e","a","c","h">>, <<"f","e","w">>, <<"m","o","r","e">>,
     <<"m","o","s","t">>, <<"o","t","h","e","r">>, <<"s","o","m","e">>, <<"s","u","c","h">>,
     <<"n","o">>, <<"n","o","r">>, <<"n","o","t">>, <<"o","n","l","y">>, <<"o","w","n">>,
     <<"s","a","m","e">>, <<"s","o">>, <<"t","h","a","n">>, <<"t","o","o">>, <<"v","e","r","y">>,
     <<"s">>, <<"t">>, <<"j","u","s","t">>, <<"d","o","n">>, <<"n","o","w">>, <<"a","n","d">>,
     <<"b","u","t">>, <<"o","r">>, <<"b","e","c","a","u","s","e">>, <<"u","n","t","i","l">>,
     <<"w","h","i","l","e">>, <<"t","h","i","s">>, <<"t","h","a","t">>, <<"t","h","e","s","e">>,
     <<"t","h","o","s","e">>, <<"i","t">>, <<"i","t","s">>, <<"w","h","a","t">>,
     <<"w","h","i","c","h">>, <<"w","h","o">>, <<"w","h","o","m">>, <<"h","e">>, <<"s","h","e">>,
     <<"t","h","e","y">>, <<"w","e">>, <<"y","o","u">>, <<"i">>, <<"m","e">>, <<"m","y">>,
     <<"y","o","u","r">>, <<"h","i","s">>, <<"h","e","r">>, <<"t","h","e","i","r">>,
     <<"o","u","r">>, <<"s","a","y","s">>, <<"s","a","i","d">>, <<"n","e","w">>,
     <<"f","i","r","s","t">>, <<"l","a","s","t">>, <<"y","e","a","r">>, <<"y","e","a","r","s">>,
     <<"d","a","y">>, <<"d","a","y","s">>, <<"t","i","m","e">>, <<"w","e","e","k">>,
     <<"m","o","n","t","h">>, <<"g","e","t">>, <<"m","a","k","e">>, <<"g","o">>,
     <<"k","n","o","w">>, <<"t","a","k","e">>, <<"s","e","e">>, <<"c","o","m","e">>,
     <<"t","h","i","n","k">>, <<"l","o","o","k">>, <<"w","a","n","t">>, <<"g","i","v","e">>,
     <<"u","s","e">>, <<"f","i","n","d">>, <<"t","e","l","l">>, <<"a","s","k">>,
     <<"w","o","r","k">>, <<"s","e","e","m">>, <<"f","e","e","l">>, <<"t","r","y">>,
     <<"l","e","a","v","e">>, <<"c","a","l","l">>, <<"g","o","o","d">>, <<"g","r","e","a","t">>,
     <<"b","i","g">> }
(***************************************************************************)
(* Inputs of the cluster store operations                                  *)
(***************************************************************************)
\* (topic, relatedQueries) pairs handed to classifyTopic
ClassifyInputs == <<
  [ topic |-> <<"E","l","e","c","t","r","i","c"," ","B","i","k","e","s">>,
    relatedQueries |->
      << <<"e","b","i","k","e"," ","r","a","n","g","e">>,
         <<"b","e","s","t"," ","e","l","e","c","t","r","i","c"," ","b","i","k","e">> >> ],
  [ topic |-> <<"T","h","e"," ","A","I">>,
    relatedQueries |->
      << >> ],
  [ topic |-> <<"S","o","l","a","r"," ","p","a","n","e","l"," ","c","o","s","t">>,
    relatedQueries |->
      << >> ],
  [ topic |-> <<"S","o","l","a","r"," ","p","a","n","e","l"," ","c","o","s","t">>,
    relatedQueries |->
      << <<"r","o","o","f"," ","i","n","s","t","a","l","l"," ","g","r","i","d">>,
         <<"b","a","t","t","e","r","y"," ","i","n","v","e","r","t","e","r"," ","r","e","b","a","t","e"," ","l","o","a","n">> >> ],
  [ topic |-> <<"W","i","n","d"," ","t","u","r","b","i","n","e"," ","c","o","s","t">>,
    relatedQueries |->
      << >> ],
  [ topic |-> <<"s","o","l","a","r"," ","w","i","n","d"," ","c","o","s","t">>,
    relatedQueries |->
      << >> ],
  [ topic |-> <<"S","o","l","a","r",","," ","w","i","n","d"," ","t","u","r","b","i","n","e"," ","c","o","s","t","?">>,
    relatedQueries |->
      << >> ],
  [ topic |-> <<"S","o","l","a","r"," ","p","a","n","e","l"," ","c","o","s","t">>,
    relatedQueries |->
      << <<"s","o","l","a","r"," ","s","t","o","r","a","g","e">>,
         <<"s","t","o","r","a","g","e"," ","c","o","s","t">>,
         <<"p","a","n","e","l"," ","s","t","o","r","a","g","e">>,
         <<"s","t","o","r","a","g","e"," ","p","a","n","e","l">>,
         <<"c","o","s","t"," ","s","t","o","r","a","g","e">>,
         <<"s","t","o","r","a","g","e"," ","s","o","l","a","r">>,
         <<"s","o","l","a","r"," ","s","t","o","r","a","g","e"," ","c","o","s","t">>,
         <<"s","t","o","r","a","g","e">>,
         <<"s","o","l","a","r"," ","s","t","o","r","a","g","e"," ","p","a","n","e","l">>,
         <<"p","a","n","e","l"," ","s","t","o","r","a","g","e"," ","r","e","b","a","t","e">> >> ],
  [ topic |-> <<"G","l","o","s","s","a","r","y">>,
    relatedQueries |->
      << <<"t","e","r","m","0","1"," ","t","e","r","m","0","2"," ","t","e","r","m","0","3"," ","t","e","r","m","0","4"," ","t","e","r","m","0","5"," ","t","e","r","m","0","6"," ","t","e","r","m","0","7"," ","t","e","r","m","0","8"," ","t","e","r","m","0","9"," ","t","e","r","m","1","0">>,
         <<"t","e","r","m","1","1"," ","t","e","r","m","1","2"," ","t","e","r","m","1","3"," ","t","e","r","m","1","4"," ","t","e","r","m","1","5"," ","t","e","r","m","1","6"," ","t","e","r","m","1","7"," ","t","e","r","m","1","8"," ","t","e","r","m","1","9"," ","t","e","r","m","2","0">>,
         <<"t","e","r","m","2","1"," ","t","e","r","m","2","2"," ","t","e","r","m","2","3"," ","t","e","r","m","2","4"," ","t","e","r","m","2","5"," ","t","e","r","m","2","6"," ","t","e","r","m","2","7"," ","t","e","r","m","2","8"," ","t","e","r","m","2","9"," ","t","e","r","m","3","0"," ","t","e","r","m","3","1">> >> ] >>

\* articles handed to addArticleToCluster (ClusterArticle; url and publishedAt are never read)
ArticleInputs == <<
  [ title |-> "Solar Guide", slug |-> "solar-guide", contentType |-> "pillar",
    keywords |-> <<<<"S","o","l","a","r">>, <<"R","O","I">>, <<"P","a","y","b","a","c","k">>>> ],
  [ title |-> "Solar Guide, updated", slug |-> "solar-guide", contentType |-> "cluster",
    keywords |-> <<<<"S","u","b","s","i","d","y">>>> ],
  [ title |-> "Solar Loans", slug |-> "solar-loans", contentType |-> "cluster",
    keywords |-> <<<<"l","o","a","n">>, <<"L","O","A","N">>>> ],
  [ title |-> "Energy Hub", slug |-> "energy-hub", contentType |-> "pillar",
    keywords |-> <<>> ] >>
(***************************************************************************)
(* Bounds of the model                                                     *)
(***************************************************************************)
\* number of store operations in a run (the clock stops there)
MaxTime == 3
\* number of clusters the store may hold
MaxClusters == 2

(***************************************************************************)
(* State                                                                   *)
(***************************************************************************)
VARIABLES
  clusters,      \* TopicClusterService.clusters, in storage order
  file,          \* data/topic-clusters.json: whether it exists and the list last written
  openaiClient,  \* TRUE iff the service was constructed with an OpenAI config
  diskWritable,  \* TRUE iff fs.writeFileSync succeeds in this run
  nextId,        \* the ids generateId has handed out so far, plus one
  now,           \* the clock read by new Date()
  res,           \* the last call: operation, arguments, returned value
  sim,           \* a call of checkTopicSimilarity: arguments and returned value
  sel,           \* a run of TrendsService.getTopicForArticle
  kw,            \* a call of a KeywordResearchService method: arguments and outcome
  pipe,          \* the pipeline runs: each run's position and its own TopicClusterService
  dash           \* the dashboard's run controller: its module state and its runs

vars ==
  <<clusters, file, openaiClient, diskWritable, nextId, now, res, sim, sel, kw, pipe, dash>>

NoFile == [exists |-> FALSE, content |-> <<>>]

\* no call of checkTopicSimilarity under way
SimIdle == [pc |-> "idle"]

\* no run of getTopicForArticle under way
SelIdle == [pc |-> "idle"]

\* no call of the keyword research service under way
KwIdle == [pc |-> "idle"]

\* no pipeline run under way
PipeIdle == [pc |-> "idle"]

\* the dashboard is not running
DashIdle == [pc |-> "idle"]

(***************************************************************************)
(* TopicClusterService                                                     *)
(***************************************************************************)
\* text.toLowerCase().replace(/[^\w\s]/g, '').split(/\s+/).filter(...)
tokenize(text) ==
  LET lowered == toLowerCase(text)
      kept == SelectSeq(lowered, LAMBDA c : isWordChar(c) \/ c \in SpaceChars)
  IN SelectSeq(splitWhitespace(kept),
               LAMBDA w : Len(w) > 2 /\ w \notin ClusterStopWords)

\* the texts the store operations are called with
ClusterTexts ==
  {ClassifyInputs[i].topic : i \in DOMAIN ClassifyInputs}
    \cup UNION {Range(ClassifyInputs[i].relatedQueries) : i \in DOMAIN ClassifyInputs}

\* tokenize, tabulated once over ClusterTexts
TokenTable == [text \in ClusterTexts |-> tokenize(text)] @@ <<>>

\* TopicClusterService.extractKeywords
extractKeywords(text) ==
  IF text \in ClusterTexts THEN TokenTable[text] ELSE tokenize(text)

\* intersection.length / union.size, 0 for an empty union
calculateOverlap(words1, words2) ==
  LET set1 == Range(words1)
      set2 == Range(words2)
      intersection == {w \in set1 : w \in set2}
      union == set1 \cup set2
  IN IF Cardinality(union) > 0
     THEN Frac(Cardinality(intersection), Cardinality(union))
     ELSE Frac(0, 1)

\* a threshold just below 0.3
JaccardThresholdLow == Frac(29, 100)

\* the literal 0.3 of the scan
JaccardThreshold == Frac(3, 10)

\* a smaller cap on the appended keywords
MergeCapSmall == 10 \div 2

\* number of new keywords one matching classification may append
MergeCap == 10

\* a looser cap on the seed keywords
SeedCapLoose == 30 + 10

\* number of keywords a new cluster is seeded with
SeedCap == 30

\* bestMatch = null
NoMatch == [idx |-> 0, score |-> Frac(0, 1)]

\* [...topicWords, ...relatedQueries.flatMap(q => this.extractKeywords(q))]
allWordsOf(topic, relatedQueries) ==
  extractKeywords(topic)
    \o flatten([i \in DOMAIN relatedQueries |-> extractKeywords(relatedQueries[i])])

\* for (const cluster of this.clusters) { ... score > 0.3 && (!bestMatch || score > bestMatch.score) }
RECURSIVE scanClusters(_, _, _, _)
scanClusters(cs, allWords, i, bestMatch) ==
  IF i > Len(cs) THEN bestMatch
  ELSE LET score == calculateOverlap(allWords, cs[i].keywords)
       IN IF /\ FracGt(score, JaccardThreshold)
             /\ (bestMatch.idx = 0 \/ FracGt(score, bestMatch.score))
          THEN scanClusters(cs, allWords, i + 1, [idx |-> i, score |-> score])
          ELSE scanClusters(cs, allWords, i + 1, bestMatch)

\* whether the cluster holds any article at all
hasArticle(cluster) == cluster.articles # <<>>

\* cluster.articles.some(a => a.contentType === 'pillar')
hasPillar(cluster) ==
  \E i \in DOMAIN cluster.articles : cluster.articles[i].contentType = "pillar"

\* allWords.filter(w => !cluster.keywords.includes(w))
newKeywordsOf(cluster, allWords) ==
  SelectSeq(allWords, LAMBDA w : w \notin Range(cluster.keywords))

\* a keyword update that keeps only the new terms
mergeKeywordsReplacing(cluster, allWords, t) ==
  LET newKeywords == newKeywordsOf(cluster, allWords)
  IN IF Len(newKeywords) > 0
     THEN [cluster EXCEPT !.keywords = sliceTo(newKeywords, MergeCap),
                          !.updatedAt = t]
     ELSE cluster

\* the keyword update of a Jaccard match
mergeKeywords(cluster, allWords, t) ==
  LET newKeywords == newKeywordsOf(cluster, allWords)
  IN IF Len(newKeywords) > 0
     THEN [cluster EXCEPT !.keywords = @ \o sliceTo(newKeywords, MergeCap),
                          !.updatedAt = t]
     ELSE cluster

\* a new cluster that is not seeded with the input's keywords
newClusterUnseeded(id, topic, allWords, t) ==
  [ id |-> id,
    pillarTopic |-> topic,
    keywords |-> <<>>,
    articles |-> <<>>,
    createdAt |-> t,
    updatedAt |-> t ]

\* the cluster created when nothing matches
newClusterOf(id, topic, allWords, t) ==
  [ id |-> id,
    pillarTopic |-> topic,
    keywords |-> sliceTo(unique(allWords), SeedCap),
    articles |-> <<>>,
    createdAt |-> t,
    updatedAt |-> t ]

\* classifyTopic on the list cs at time t; id is the id generateId would
\* return.  saved tells whether saveClusters was called.
classifyTopic(cs, topic, relatedQueries, id, t) ==
  LET allWords == allWordsOf(topic, relatedQueries)
      bestMatch == scanClusters(cs, allWords, 1, NoMatch)
  IN IF bestMatch.idx # 0
     THEN LET cluster == cs[bestMatch.idx]
              contentType == IF hasPillar(cluster) THEN "cluster" ELSE "pillar"
              merged == mergeKeywords(cluster, allWords, t)
          IN [ clusters |-> [cs EXCEPT ![bestMatch.idx] = merged],
               saved |-> Len(newKeywordsOf(cluster, allWords)) > 0,
               result |-> [clusterId |-> cluster.id, contentType |-> contentType,
                           isNew |-> FALSE] ]
     ELSE [ clusters |-> Append(cs, newClusterOf(id, topic, allWords, t)),
            saved |-> TRUE,
            result |-> [clusterId |-> id, contentType |-> "pillar", isNew |-> TRUE] ]

\* this.clusters.find(c => c.id === clusterId): its index, 0 for undefined
findCluster(cs, clusterId) ==
  IF \E i \in DOMAIN cs : cs[i].id = clusterId
  THEN CHOOSE i \in DOMAIN cs : cs[i].id = clusterId /\ \A j \in 1..(i-1) : cs[j].id # clusterId
  ELSE 0

\* addArticleToCluster that takes two articles for the same when their
\* titles agree
addArticleByTitle(cs, clusterId, article, t) ==
  LET idx == findCluster(cs, clusterId)
  IN IF idx = 0
     THEN [clusters |-> cs, saved |-> FALSE, outcome |-> "not found"]
     ELSE LET cluster == cs[idx]
          IN IF \E i \in DOMAIN cluster.articles : cluster.articles[i].title = article.title
             THEN [clusters |-> cs, saved |-> FALSE, outcome |-> "duplicate"]
             ELSE [ clusters |->
                      [cs EXCEPT ![idx] =
                         [cluster EXCEPT !.articles = Append(@, article),
                                         !.updatedAt = t]],
                    saved |-> TRUE,
                    outcome |-> "added" ]

\* addArticleToCluster on the list cs at time t
addArticleToCluster(cs, clusterId, article, t) ==
  LET idx == findCluster(cs, clusterId)
  IN IF idx = 0
     THEN [clusters |-> cs, saved |-> FALSE, outcome |-> "not found"]
     ELSE LET cluster == cs[idx]
          IN IF \E i \in DOMAIN cluster.articles : cluster.articles[i].slug = article.slug
             THEN [clusters |-> cs, saved |-> FALSE, outcome |-> "duplicate"]
             ELSE LET newKeywords ==
                        SelectSeq(article.keywords,
                                  LAMBDA k : toLowerCase(k) \notin Range(cluster.keywords))
                      lowered == [i \in DOMAIN newKeywords |-> toLowerCase(newKeywords[i])]
                  IN [ clusters |->
                         [cs EXCEPT ![idx] =
                            [cluster EXCEPT !.articles = Append(@, article),
                                            !.updatedAt = t,
                                            !.keywords = @ \o lowered]],
                       saved |-> TRUE,
                       outcome |-> "added" ]

(***************************************************************************)
(* Embedding path                                                          *)
(***************************************************************************)
\* EMBEDDING_SIMILARITY_THRESHOLD = 0.75, as the cosine of a pair of
\* vectors with dot product 3 and squared norms 1 and 16
EMBEDDING_SIMILARITY_THRESHOLD == [dot |-> 3, normA |-> 1, normB |-> 16]

\* a failed embeddings.create call
Throw == [ok |-> FALSE, embedding |-> <<>>]

\* vectors the embedding collaborator may answer with
EmbeddingVectors ==
  { <<1, 0, 0, 0, 0>>, <<3, 1, 0, 0, 0>>, <<3, 2, 1, 1, 1>>, <<0, 0, 0, 0, 0>> }

EmbeddingResponses == {[ok |-> TRUE, embedding |-> v] : v \in EmbeddingVectors} \cup {Throw}

\* answers to the call for the topic text
TopicEmbeddingResponses == {[ok |-> TRUE, embedding |-> <<1, 0, 0, 0, 0>>], Throw}

\* the answers to the n + 1 calls of one classification over n clusters; no
\* call follows a call that threw, and no call is made when the guard returns
ResponseLists(client, n) ==
  IF ~client \/ n = 0 THEN {<<>>}
  ELSE {r \in [1..(n + 1) -> EmbeddingResponses] :
          /\ r[1] \in TopicEmbeddingResponses
          /\ \A k \in 1..n : r[k] = Throw => r[k + 1] = Throw}

RECURSIVE sumTo(_, _)
sumTo(f, n) == IF n = 0 THEN 0 ELSE f[n] + sumTo(f, n - 1)

\* cosineSimilarity: the three accumulators of the loop; the value is
\* dot / (sqrt(normA) * sqrt(normB)), 0 when the denominator is 0
cosineSimilarity(a, b) ==
  [ dot   |-> sumTo([i \in DOMAIN a |-> a[i] * b[i]], Len(a)),
    normA |-> sumTo([i \in DOMAIN a |-> a[i] * a[i]], Len(a)),
    normB |-> sumTo([i \in DOMAIN a |-> b[i] * b[i]], Len(a)) ]

\* x > y for two cosine values
CosGt(x, y) ==
  LET xd == IF x.normA * x.normB = 0 THEN 0 ELSE x.dot
      yd == IF y.normA * y.normB = 0 THEN 0 ELSE y.dot
      xn == IF x.normA * x.normB = 0 THEN 1 ELSE x.normA * x.normB
      yn == IF y.normA * y.normB = 0 THEN 1 ELSE y.normA * y.normB
  IN IF xd > 0 /\ yd <= 0 THEN TRUE
     ELSE IF xd <= 0 /\ yd > 0 THEN FALSE
     ELSE IF xd > 0 THEN xd * xd * yn > yd * yd * xn
     ELSE xd * xd * yn < yd * yd * xn

NoEmbeddingMatch == [idx |-> 0, score |-> [dot |-> 0, normA |-> 1, normB |-> 1]]

\* the loop over the clusters; emb[i] is the embedding returned for cluster i
RECURSIVE scanEmbeddings(_, _, _, _)
scanEmbeddings(topicEmbedding, emb, i, bestMatch) ==
  IF i > Len(emb) THEN bestMatch
  ELSE LET score == cosineSimilarity(topicEmbedding, emb[i])
       IN IF /\ CosGt(score, EMBEDDING_SIMILARITY_THRESHOLD)
             /\ (bestMatch.idx = 0 \/ CosGt(score, bestMatch.score))
          THEN scanEmbeddings(topicEmbedding, emb, i + 1, [idx |-> i, score |-> score])
          ELSE scanEmbeddings(topicEmbedding, emb, i + 1, bestMatch)

\* the keyword update of an embedding match
embeddingMergeKeywords(cluster, topic, relatedQueries, t) ==
  LET allWords == allWordsOf(topic, relatedQueries)
      newKeywords == SelectSeq(allWords, LAMBDA w : w \notin Range(cluster.keywords))
  IN IF Len(newKeywords) > 0
     THEN [cluster EXCEPT !.keywords = @ \o sliceTo(newKeywords, MergeCap),
                          !.updatedAt = t]
     ELSE cluster

\* index of the first call that throws, 0 when none does
firstThrow(responses) ==
  IF \E k \in DOMAIN responses : responses[k] = Throw
  THEN CHOOSE k \in DOMAIN responses :
         responses[k] = Throw /\ \A j \in 1..(k-1) : responses[j] # Throw
  ELSE 0

\* classifyTopicWithEmbeddings that, instead of falling back to the Jaccard
\* path, creates a new cluster whenever the embeddings give no match
classifyTopicCreatingOnFailure(cs, client, topic, relatedQueries, id, t, responses) ==
  IF ~client \/ Len(cs) = 0
  THEN classifyTopic(cs, topic, relatedQueries, id, t)
         @@ [calls |-> 0, path |-> "guard"]
  ELSE [ clusters |-> Append(cs, newClusterOf(id, topic,
                                              allWordsOf(topic, relatedQueries), t)),
         saved |-> TRUE,
         result |-> [clusterId |-> id, contentType |-> "pillar", isNew |-> TRUE],
         calls |-> IF firstThrow(responses) # 0
                   THEN firstThrow(responses) ELSE Len(cs) + 1,
         path |-> IF firstThrow(responses) # 0 THEN "catch" ELSE "no match" ]

\* classifyTopicWithEmbeddings on the list cs; responses[1] answers the call
\* for the topic text, responses[i+1] the call for cluster i.  calls is the
\* number of getEmbedding calls made, path the branch that returned.
classifyTopicWithEmbeddings(cs, client, topic, relatedQueries, id, t, responses) ==
  IF ~client \/ Len(cs) = 0
  THEN classifyTopic(cs, topic, relatedQueries, id, t)
         @@ [calls |-> 0, path |-> "guard"]
  ELSE IF firstThrow(responses) # 0
  THEN classifyTopic(cs, topic, relatedQueries, id, t)
         @@ [calls |-> firstThrow(responses), path |-> "catch"]
  ELSE LET topicEmbedding == responses[1].embedding
           emb == [i \in DOMAIN cs |-> responses[i + 1].embedding]
           bestMatch == scanEmbeddings(topicEmbedding, emb, 1, NoEmbeddingMatch)
       IN IF bestMatch.idx # 0
          THEN LET cluster == cs[bestMatch.idx]
                   contentType == IF hasPillar(cluster) THEN "cluster" ELSE "pillar"
                   merged == embeddingMergeKeywords(cluster, topic, relatedQueries, t)
               IN [ clusters |-> [cs EXCEPT ![bestMatch.idx] = merged],
                    saved |-> merged # cluster,
                    result |-> [clusterId |-> cluster.id, contentType |-> contentType,
                                isNew |-> FALSE],
                    calls |-> Len(cs) + 1,
                    path |-> "match" ]
          ELSE classifyTopic(cs, topic, relatedQueries, id, t)
                 @@ [calls |-> Len(cs) + 1, path |-> "no match"]

(***************************************************************************)
(* The cluster store as a state machine                                    *)
(***************************************************************************)
\* inputs of ClassifyInputs handed to classifyTopicWithEmbeddings
EmbeddingInputs == {6, 8}

\* an id no cluster has
MissingId == 0

Init ==
  /\ clusters = <<>>
  /\ file = NoFile
  /\ openaiClient \in BOOLEAN
  /\ diskWritable \in BOOLEAN
  /\ nextId = 1
  /\ now = 0
  /\ res = [op |-> "constructor"]
  /\ sim = SimIdle
  /\ sel = SelIdle
  /\ kw = KwIdle
  /\ pipe = PipeIdle
  /\ dash = DashIdle

\* a saveClusters that writes only when there is no file yet
saveClustersOnce(cs, saved, writeOk) ==
  IF saved /\ writeOk /\ ~file.exists THEN [exists |-> TRUE, content |-> cs] ELSE file

\* saveClusters: the whole list is written; a failed write is logged and
\* leaves the file as it was
saveClusters(cs, saved, writeOk) ==
  IF saved /\ writeOk THEN [exists |-> TRUE, content |-> cs] ELSE file

ClassifyTopic ==
  /\ now < MaxTime
  /\ \E i \in DOMAIN ClassifyInputs :
     \E r \in {classifyTopic(clusters, ClassifyInputs[i].topic,
                           ClassifyInputs[i].relatedQueries, nextId, now + 1)} :
       /\ Len(r.clusters) <= MaxClusters
       /\ clusters' = r.clusters
       /\ file' = saveClusters(r.clusters, r.saved, diskWritable)
       /\ nextId' = IF r.result.isNew THEN nextId + 1 ELSE nextId
       /\ now' = now + 1
       /\ res' = [op |-> "classifyTopic", input |-> i, result |-> r.result,
                  saved |-> r.saved, calls |-> 0, path |-> "jaccard"]
       /\ UNCHANGED <<openaiClient, diskWritable, sim, sel, kw, pipe, dash>>

ClassifyTopicWithEmbeddings ==
  /\ now < MaxTime
  /\ \E i \in EmbeddingInputs,
        responses \in ResponseLists(openaiClient, Len(clusters)) :
     \E r \in {classifyTopicWithEmbeddings(clusters, openaiClient, ClassifyInputs[i].topic,
                                         ClassifyInputs[i].relatedQueries, nextId,
                                         now + 1, responses)} :
       /\ Len(r.clusters) <= MaxClusters
       /\ clusters' = r.clusters
       /\ file' = saveClusters(r.clusters, r.saved, diskWritable)
       /\ nextId' = IF r.result.isNew THEN nextId + 1 ELSE nextId
       /\ now' = now + 1
       /\ res' = [op |-> "classifyTopicWithEmbeddings", input |-> i, result |-> r.result,
                  saved |-> r.saved, calls |-> r.calls, path |-> r.path]
       /\ UNCHANGED <<openaiClient, diskWritable, sim, sel, kw, pipe, dash>>

AddArticleToCluster ==
  /\ now < MaxTime
  /\ \E clusterId \in {clusters[i].id : i \in DOMAIN clusters} \cup {MissingId},
        a \in DOMAIN ArticleInputs :
     \E r \in {addArticleToCluster(clusters, clusterId, ArticleInputs[a], now + 1)} :
       /\ clusters' = r.clusters
       /\ file' = saveClusters(r.clusters, r.saved, diskWritable)
       /\ now' = now + 1
       /\ res' = [op |-> "addArticleToCluster", clusterId |-> clusterId, article |-> a,
                  outcome |-> r.outcome, saved |-> r.saved]
       /\ UNCHANGED <<openaiClient, diskWritable, nextId, sim, sel, kw, pipe, dash>>

Next == ClassifyTopic \/ ClassifyTopicWithEmbeddings \/ AddArticleToCluster

Spec == Init /\ [][Next]_vars

TypeOK ==
  /\ Len(clusters) <= MaxClusters
  /\ now \in 0..MaxTime

(***************************************************************************)
(* Properties of the cluster store                                         *)
(***************************************************************************)
\* the set of tokens extracted from the topic and the related queries of
\* input i
InputTokens(i) ==
  Range(allWordsOf(ClassifyInputs[i].topic, ClassifyInputs[i].relatedQueries))

\* |A \cap B| / |A \cup B| > 3/10
OverlapAbove03(A, B) ==
  10 * Cardinality(A \cap B) > 3 * Cardinality(A \cup B)

\* |A \cap B1| / |A \cup B1| > |A \cap B2| / |A \cup B2|
OverlapGreater(A, B1, B2) ==
  Cardinality(A \cap B1) * Cardinality(A \cup B2)
    > Cardinality(A \cap B2) * Cardinality(A \cup B1)

\* the clusters of the list cs that carry the id
WithId(cs, id) == {j \in DOMAIN cs : cs[j].id = id}

ClassifyOps == {"classifyTopic", "classifyTopicWithEmbeddings"}

\* C1: classifyTopic matches a cluster only when the overlap of that cluster
\* with the input tokens is strictly above 0.3 (otherwise a new cluster is
\* created); the matched cluster has the maximum overlap, and is the
\* earliest in storage order of those with the maximum.
C1_JaccardMatch ==
  [][ res'.op = "classifyTopic" =>
        LET W == InputTokens(res'.input)
            above == {j \in DOMAIN clusters :
                        OverlapAbove03(W, Range(clusters[j].keywords))}
        IN IF res'.result.isNew
           THEN above = {}
           ELSE \E m \in above :
                  /\ clusters[m].id = res'.result.clusterId
                  /\ \A j \in DOMAIN clusters :
                       ~OverlapGreater(W, Range(clusters[j].keywords),
                                       Range(clusters[m].keywords))
                  /\ \A j \in 1..(m - 1) :
                       OverlapGreater(W, Range(clusters[m].keywords),
                                      Range(clusters[j].keywords))
    ]_vars

\* a classification created a new cluster although a stored cluster
\* overlaps its tokens by exactly 0.3
C1_Witness ==
  /\ res.op = "classifyTopic"
  /\ res.result.isNew
  /\ \E j \in DOMAIN clusters :
       /\ clusters[j].id # res.result.clusterId
       /\ Cardinality(InputTokens(res.input) \cap Range(clusters[j].keywords)) = 3
       /\ Cardinality(InputTokens(res.input) \cup Range(clusters[j].keywords)) = 10

\* C2: addArticleToCluster with a slug the target cluster already holds
\* changes nothing: clusters (articles, keywords, updatedAt) and the file
\* stay as they are, no write is attempted and no error is raised.
C2_DuplicateSlugNoOp ==
  [][ ( /\ res'.op = "addArticleToCluster"
        /\ \E j \in WithId(clusters, res'.clusterId) :
             /\ \A k \in WithId(clusters, res'.clusterId) : j <= k
             /\ \E n \in DOMAIN clusters[j].articles :
                  clusters[j].articles[n].slug = ArticleInputs[res'.article].slug )
      => /\ clusters' = clusters
         /\ file' = file
         /\ ~res'.saved
         /\ res'.outcome = "duplicate"
    ]_vars

\* an article with another title and other keywords was offered under a
\* slug the cluster already holds
C2_Witness ==
  /\ res.op = "addArticleToCluster"
  /\ res.outcome = "duplicate"
  /\ \E j \in WithId(clusters, res.clusterId) :
       \E n \in DOMAIN clusters[j].articles :
         /\ clusters[j].articles[n].slug = ArticleInputs[res.article].slug
         /\ clusters[j].articles[n].title # ArticleInputs[res.article].title

Min(a, b) == IF a < b THEN a ELSE b

\* C3 (as claimed): classifying the same topic and queries twice in a row
\* returns, the second time, isNew = FALSE and the cluster id of the first
\* call, and adds no cluster.
C3_Original ==
  [][ ( /\ res.op = "classifyTopic"
        /\ res'.op = "classifyTopic"
        /\ res'.input = res.input )
      => /\ ~res'.result.isNew
         /\ res'.result.clusterId = res.result.clusterId
         /\ Len(clusters') = Len(clusters)
    ]_vars

\* C3 (amended): the same, for inputs from which at least one token is
\* extracted and whose first 30 distinct tokens overlap the whole token set
\* by more than 0.3 (fewer than 100 distinct tokens).
C3_SecondCallMatches ==
  [][ ( /\ res.op = "classifyTopic"
        /\ res'.op = "classifyTopic"
        /\ res'.input = res.input
        /\ Cardinality(InputTokens(res.input)) >= 1
        /\ 10 * Min(Cardinality(InputTokens(res.input)), 30)
             > 3 * Cardinality(InputTokens(res.input)) )
      => /\ ~res'.result.isNew
         /\ res'.result.clusterId = res.result.clusterId
         /\ Len(clusters') = Len(clusters)
    ]_vars

\* the topic "Electric Bikes" was classified into an empty store and then
\* classified again: the second call matched the cluster the first created
C3_Witness ==
  /\ now = 2
  /\ res.op = "classifyTopic"
  /\ res.input = 1
  /\ ~res.result.isNew
  /\ Len(clusters) = 1
  /\ clusters[1].createdAt = 1
  /\ clusters[1].pillarTopic = ClassifyInputs[1].topic
  /\ clusters[1].id = res.result.clusterId

\* C4: a classification that matches a cluster, on either path, returns
\* 'pillar' exactly when the cluster holds no article of type 'pillar' and
\* 'cluster' otherwise; a cluster that holds a pillar article keeps it, so
\* every later match returns 'cluster'.
C4_PillarUntilRecorded ==
  [][ /\ ( res'.op \in ClassifyOps /\ ~res'.result.isNew )
         => \E m \in WithId(clusters, res'.result.clusterId) :
              res'.result.contentType =
                IF \E n \in DOMAIN clusters[m].articles :
                     clusters[m].articles[n].contentType = "pillar"
                THEN "cluster" ELSE "pillar"
      /\ \A j \in DOMAIN clusters :
           (\E n \in DOMAIN clusters[j].articles :
              clusters[j].articles[n].contentType = "pillar")
           => /\ j \in DOMAIN clusters'
              /\ clusters'[j].id = clusters[j].id
              /\ \E n \in DOMAIN clusters'[j].articles :
                   clusters'[j].articles[n].contentType = "pillar"
    ]_vars

\* an embedding match into a cluster that holds a pillar article
C4_Witness ==
  /\ res.op = "classifyTopicWithEmbeddings"
  /\ res.path = "match"
  /\ res.result.contentType = "cluster"
  /\ \E m \in WithId(clusters, res.result.clusterId) :
       \E n \in DOMAIN clusters[m].articles :
         clusters[m].articles[n].contentType = "pillar"

\* C5: without a client, with an empty store, or when an embedding call
\* throws, classifyTopicWithEmbeddings returns what classifyTopic returns on
\* the same store and arguments and leaves the store classifyTopic leaves;
\* without a client or with an empty store no embedding call is made.
C5_FallbackIsJaccard ==
  [][ res'.op = "classifyTopicWithEmbeddings" =>
        LET j == classifyTopic(clusters, ClassifyInputs[res'.input].topic,
                               ClassifyInputs[res'.input].relatedQueries,
                               nextId, now')
        IN /\ ( ~openaiClient \/ clusters = <<>> \/ res'.path = "catch" )
                => /\ res'.result = j.result
                   /\ clusters' = j.clusters
                   /\ res'.saved = j.saved
           /\ ( ~openaiClient \/ clusters = <<>> ) => res'.calls = 0
           /\ res'.path = "catch" => res'.calls \in 1..(Len(clusters) + 1)
    ]_vars

\* the call for the topic text succeeded, a call for a cluster threw, and
\* the Jaccard path then matched a stored cluster
C5_Witness ==
  /\ res.op = "classifyTopicWithEmbeddings"
  /\ res.path = "catch"
  /\ res.calls >= 2
  /\ ~res.result.isNew

C7_Original ==
  [][ ( res'.op = "classifyTopic" /\ ~res'.result.isNew )
      => \E m \in WithId(clusters', res'.result.clusterId) :
           InputTokens(res'.input) \subseteq Range(clusters'[m].keywords)
    ]_vars

\* C7 (amended): after classifyTopic matched a cluster, the keywords of
\* that cluster are the former keywords followed by the first 10 entries
\* of the input's token list that were not among them.
C7_FirstTenMerged ==
  [][ ( res'.op = "classifyTopic" /\ ~res'.result.isNew )
      => \E m \in WithId(clusters, res'.result.clusterId) :
           LET old == clusters[m].keywords
               words == allWordsOf(ClassifyInputs[res'.input].topic,
                                   ClassifyInputs[res'.input].relatedQueries)
               fresh == SelectSeq(words, LAMBDA w : w \notin Range(old))
           IN /\ m \in DOMAIN clusters'
              /\ clusters'[m].keywords = old \o SubSeq(fresh, 1, Min(Len(fresh), 10))
    ]_vars

\* a match appended ten entries and left a token of the input out
C7_Witness ==
  /\ res.op = "classifyTopic"
  /\ ~res.result.isNew
  /\ res.saved
  /\ \E m \in WithId(clusters, res.result.clusterId) :
       ~(InputTokens(res.input) \subseteq Range(clusters[m].keywords))

(***************************************************************************)
(* Topic diversity utilities                                               *)
(***************************************************************************)
\* text.replace(/<[^>]*>/g, ''): a '<' and everything up to the next '>'
\* is removed; a '<' that no '>' follows stays
RECURSIVE stripTagsFrom(_, _, _)
stripTagsFrom(s, i, acc) ==
  IF i > Len(s) THEN acc
  ELSE IF s[i] = "<" /\ \E j \in (i + 1)..Len(s) : s[j] = ">"
       THEN LET close == CHOOSE j \in (i + 1)..Len(s) :
                           s[j] = ">" /\ \A k \in (i + 1)..(j - 1) : s[k] # ">"
            IN stripTagsFrom(s, close + 1, acc)
       ELSE stripTagsFrom(s, i + 1, Append(acc, s[i]))

stripTags(s) == stripTagsFrom(s, 1, <<>>)

\* the characters kept by replace(/[^a-z0-9\s-]/g, ' ')
DiversityChars == Range(LowerChars) \cup DigitChars \cup SpaceChars \cup {"-"}

\* extractKeywords of the topic-diversity utilities
diversityExtractKeywords(text) ==
  LET cleanText == stripTags(text)
      lowered == toLowerCase(cleanText)
      spaced == [i \in DOMAIN lowered |->
                   IF lowered[i] \in DiversityChars THEN lowered[i] ELSE " "]
      words == SelectSeq(splitWhitespace(spaced),
                         LAMBDA word : Len(word) > 2 /\ word \notin STOP_WORDS)
  IN unique(words)

\* jaccardSimilarity: intersection / (size1 + size2 - intersection)
jaccardSimilarity(words1, words2) ==
  LET set1 == Range(words1)
      set2 == Range(words2)
      intersection == Cardinality({word \in set1 : word \in set2})
      union == Cardinality(set1) + Cardinality(set2) - intersection
  IN IF union = 0 THEN Frac(0, 1) ELSE Frac(intersection, union)

\* [...extractKeywords(title), ...list.map(x => x.toLowerCase())]
wordBag(title, list) ==
  diversityExtractKeywords(title) \o [i \in DOMAIN list |-> toLowerCase(list[i])]

\* the loop of checkTopicSimilarity over the recent articles
RECURSIVE scanHistory(_, _, _, _)
scanHistory(candidateWords, recentHistory, i, best) ==
  IF i > Len(recentHistory) THEN best
  ELSE LET article == recentHistory[i]
           score == jaccardSimilarity(candidateWords,
                                      wordBag(article.title, article.keywords))
       IN IF FracGt(score, best.highestScore)
          THEN scanHistory(candidateWords, recentHistory, i + 1,
                           [highestScore |-> score, mostSimilarTitle |-> article.title])
          ELSE scanHistory(candidateWords, recentHistory, i + 1, best)

\* a variant that rejects only above the threshold
checkTopicSimilarityStrict(candidateTitle, candidateQueries, recentHistory, threshold) ==
  IF Len(recentHistory) = 0
  THEN [isTooSimilar |-> FALSE, highestScore |-> Frac(0, 1), mostSimilarTitle |-> <<>>]
  ELSE LET candidateWords == wordBag(candidateTitle, candidateQueries)
           best == scanHistory(candidateWords, recentHistory, 1,
                               [highestScore |-> Frac(0, 1), mostSimilarTitle |-> <<>>])
       IN [ isTooSimilar |-> FracGt(best.highestScore, threshold),
            highestScore |-> best.highestScore,
            mostSimilarTitle |-> best.mostSimilarTitle ]

\* checkTopicSimilarity; the threshold is a fraction
checkTopicSimilarity(candidateTitle, candidateQueries, recentHistory, threshold) ==
  IF Len(recentHistory) = 0
  THEN [isTooSimilar |-> FALSE, highestScore |-> Frac(0, 1), mostSimilarTitle |-> <<>>]
  ELSE LET candidateWords == wordBag(candidateTitle, candidateQueries)
           best == scanHistory(candidateWords, recentHistory, 1,
                               [highestScore |-> Frac(0, 1), mostSimilarTitle |-> <<>>])
       IN [ isTooSimilar |-> FracGe(best.highestScore, threshold),
            highestScore |-> best.highestScore,
            mostSimilarTitle |-> best.mostSimilarTitle ]

\* (candidateTitle, candidateQueries) pairs handed to checkTopicSimilarity
SimilarityCandidates == <<
  [ title |-> <<"T","o","p"," ","E","l","e","c","t","r","i","c"," ","B","i","k","e","s"," ","f","o","r"," ","C","o","m","m","u","t","e","r","s">>,
    relatedQueries |->
      << >> ],
  [ title |-> <<"E","l","e","c","t","r","i","c"," ","B","i","k","e","s">>,
    relatedQueries |->
      << <<"B","e","s","t">>,
         <<"2","0","2","4">> >> ],
  [ title |-> <<"S","o","l","a","r"," ","r","o","o","f">>,
    relatedQueries |->
      << >> ],
  [ title |-> <<"<","b",">","S","o","l","a","r","<","/","b",">"," ","P","a","n","e","l"," ","C","o","s","t">>,
    relatedQueries |->
      << <<"s","o","l","a","r">> >> ],
  [ title |-> <<"T","h","e"," ","A","I">>,
    relatedQueries |->
      << >> ],
  [ title |-> <<"W","i","n","d"," ","T","u","r","b","i","n","e"," ","N","o","i","s","e">>,
    relatedQueries |->
      << <<"w","i","n","d"," ","f","a","r","m">>,
         <<"T","u","r","b","i","n","e">> >> ] >>

\* recentHistory lists (RecentArticle: title, keywords, createdAt)
RecentHistories == <<
  <<  >>,
  << [ title |-> <<"B","e","s","t"," ","E","l","e","c","t","r","i","c"," ","B","i","k","e","s"," ","2","0","2","4">>, keywords |-> << <<"e","l","e","c","t","r","i","c">>, <<"b","i","k","e">> >>, createdAt |-> 1 ] >>,
  << [ title |-> <<"S","o","l","a","r"," ","p","a","n","e","l"," ","c","o","s","t">>, keywords |-> << <<"S","o","l","a","r">> >>, createdAt |-> 2 ],
     [ title |-> <<"B","e","s","t"," ","E","l","e","c","t","r","i","c"," ","B","i","k","e","s"," ","2","0","2","4">>, keywords |-> << <<"e","l","e","c","t","r","i","c">>, <<"b","i","k","e">> >>, createdAt |-> 1 ] >>,
  << [ title |-> <<>>, keywords |-> << >>, createdAt |-> 1 ] >>,
  << [ title |-> <<"S","u","s","t","a","i","n","a","b","l","e"," ","L","i","v","i","n","g"," ","G","u","i","d","e">>, keywords |-> << <<"Z","e","r","o"," ","w","a","s","t","e">> >>, createdAt |-> 3 ] >> >>

\* similarity thresholds a caller may configure: 0, 0.25, 0.35, 0.5, 1
Thresholds == {Frac(0, 1), Frac(1, 4), Frac(7, 20), Frac(1, 2), Frac(1, 1)}

\* the arguments of one call of checkTopicSimilarity
SimInit ==
  sim \in { [pc |-> "called", candidate |-> c, history |-> h, threshold |-> th]
            : c \in DOMAIN SimilarityCandidates, h \in DOMAIN RecentHistories,
              th \in Thresholds }

\* the call returns
CheckTopicSimilarity ==
  /\ sim.pc = "called"
  /\ sim' = [ pc |-> "returned",
              candidate |-> sim.candidate,
              history |-> sim.history,
              threshold |-> sim.threshold,
              result |-> checkTopicSimilarity(
                           SimilarityCandidates[sim.candidate].title,
                           SimilarityCandidates[sim.candidate].relatedQueries,
                           RecentHistories[sim.history], sim.threshold) ]

\* the cluster store stays as constructed while another component runs
ClusterIdle ==
  /\ clusters = <<>>
  /\ file = NoFile
  /\ openaiClient = FALSE
  /\ diskWritable = FALSE
  /\ nextId = 1
  /\ now = 0
  /\ res = [op |-> "constructor"]

clusterVars == <<clusters, file, openaiClient, diskWritable, nextId, now, res>>

SimSpecInit ==
  ClusterIdle /\ SimInit /\ sel = SelIdle /\ kw = KwIdle /\ pipe = PipeIdle /\ dash = DashIdle

SimNext == CheckTopicSimilarity /\ UNCHANGED <<clusterVars, sel, kw, pipe, dash>>

SimSpec == SimSpecInit /\ [][SimNext]_vars

(***************************************************************************)
(* Properties of checkTopicSimilarity                                      *)
(***************************************************************************)
\* the words of a title and a list of queries or keywords, as a set
WordSet(title, list) == Range(wordBag(title, list))

\* article a of the list scores at least n/d against the candidate words:
\* |intersection| / |union| >= n/d, a score over an empty union being 0
ScoresAtLeast(cw, article, n, d) ==
  LET aw == WordSet(article.title, article.keywords)
  IN IF cw \cup aw = {} THEN n <= 0
     ELSE Cardinality(cw \cap aw) * d >= n * Cardinality(cw \cup aw)

\* C8: checkTopicSimilarity returns isTooSimilar = true exactly when the
\* history is non-empty and some recent article's Jaccard score reaches the
\* threshold (equality included); the reported highestScore is reached by an
\* article or is 0 and no article scores more; with an empty history the
\* result is isTooSimilar = false, highestScore = 0 whatever the threshold.
C8_TooSimilarIffReached ==
  sim.pc = "returned" =>
    LET c == SimilarityCandidates[sim.candidate]
        h == RecentHistories[sim.history]
        cw == WordSet(c.title, c.relatedQueries)
        r == sim.result
    IN /\ r.isTooSimilar =
            ( /\ Len(h) > 0
              /\ \E k \in DOMAIN h :
                   ScoresAtLeast(cw, h[k], sim.threshold.n, sim.threshold.d) )
       /\ \A k \in DOMAIN h :
            LET aw == WordSet(h[k].title, h[k].keywords)
            IN Cardinality(cw \cap aw) * r.highestScore.d
                 <= r.highestScore.n * Cardinality(cw \cup aw)
       /\ r.highestScore.n > 0 =>
            \E k \in DOMAIN h : ScoresAtLeast(cw, h[k], r.highestScore.n, r.highestScore.d)
       /\ Len(h) = 0 => ~r.isTooSimilar /\ r.highestScore.n = 0

\* a call whose highest score equals a positive threshold and is rejected
C8_Witness ==
  /\ sim.pc = "returned"
  /\ Len(RecentHistories[sim.history]) > 0
  /\ sim.threshold.n > 0
  /\ sim.result.highestScore.n * sim.threshold.d = sim.threshold.n * sim.result.highestScore.d
  /\ sim.result.isTooSimilar

(***************************************************************************)
(* TrendsService: the topic selector                                       *)
(***************************************************************************)
\* the static pool of fallback topics
FALLBACK_TOPICS == <<
  [ title |-> <<"A","I"," ","i","n"," ","H","e","a","l","t","h","c","a","r","e"," ","2","0","2","6">>,
    relatedQueries |->
      << <<"a","r","t","i","f","i","c","i","a","l"," ","i","n","t","e","l","l","i","g","e","n","c","e"," ","m","e","d","i","c","a","l">>,
         <<"A","I"," ","d","i","a","g","n","o","s","i","s">>,
         <<"m","a","c","h","i","n","e"," ","l","e","a","r","n","i","n","g"," ","h","e","a","l","t","h","c","a","r","e">>,
         <<"A","I"," ","d","r","u","g"," ","d","i","s","c","o","v","e","r","y">>,
         <<"h","e","a","l","t","h","c","a","r","e"," ","a","u","t","o","m","a","t","i","o","n">> >> ],
  [ title |-> <<"R","e","m","o","t","e"," ","W","o","r","k"," ","P","r","o","d","u","c","t","i","v","i","t","y"," ","T","i","p","s">>,
    relatedQueries |->
      << <<"w","o","r","k"," ","f","r","o","m"," ","h","o","m","e"," ","t","i","p","s">>,
         <<"r","e","m","o","t","e"," ","w","o","r","k"," ","t","o","o","l","s">>,
         <<"p","r","o","d","u","c","t","i","v","i","t","y"," ","a","p","p","s">>,
         <<"h","o","m","e"," ","o","f","f","i","c","e"," ","s","e","t","u","p">>,
         <<"v","i","r","t","u","a","l"," ","c","o","l","l","a","b","o","r","a","t","i","o","n">> >> ],
  [ title |-> <<"S","u","s","t","a","i","n","a","b","l","e"," ","L","i","v","i","n","g"," ","G","u","i","d","e">>,
    relatedQueries |->
      << <<"e","c","o","-","f","r","i","e","n","d","l","y"," ","l","i","f","e","s","t","y","l","e">>,
         <<"r","e","d","u","c","e"," ","c","a","r","b","o","n"," ","f","o","o","t","p","r","i","n","t">>,
         <<"s","u","s","t","a","i","n","a","b","l","e"," ","p","r","o","d","u","c","t","s">>,
         <<"g","r","e","e","n"," ","l","i","v","i","n","g"," ","t","i","p","s">>,
         <<"z","e","r","o"," ","w","a","s","t","e">> >> ],
  [ title |-> <<"P","e","r","s","o","n","a","l"," ","F","i","n","a","n","c","e"," ","S","t","r","a","t","e","g","i","e","s">>,
    relatedQueries |->
      << <<"b","u","d","g","e","t","i","n","g"," ","t","i","p","s">>,
         <<"i","n","v","e","s","t","m","e","n","t"," ","s","t","r","a","t","e","g","i","e","s">>,
         <<"s","a","v","i","n","g"," ","m","o","n","e","y">>,
         <<"f","i","n","a","n","c","i","a","l"," ","p","l","a","n","n","i","n","g">>,
         <<"p","a","s","s","i","v","e"," ","i","n","c","o","m","e">> >> ],
  [ title |-> <<"M","e","n","t","a","l"," ","H","e","a","l","t","h"," ","a","n","d"," ","W","e","l","l","n","e","s","s">>,
    relatedQueries |->
      << <<"s","t","r","e","s","s"," ","m","a","n","a","g","e","m","e","n","t">>,
         <<"m","i","n","d","f","u","l","n","e","s","s"," ","t","e","c","h","n","i","q","u","e","s">>,
         <<"a","n","x","i","e","t","y"," ","r","e","l","i","e","f">>,
         <<"s","e","l","f","-","c","a","r","e"," ","t","i","p","s">>,
         <<"w","o","r","k"," ","l","i","f","e"," ","b","a","l","a","n","c","e">> >> ] >>

\* trySource or getTopicForArticle returned null
NoTopic == [isNull |-> TRUE]

\* config.sources || ['rss', 'google', 'openai', 'fallback']
DefaultSources == <<"rss", "google", "openai", "fallback">>

\* values of config.sources: absent, empty, and lists with and without
\* 'fallback'
SourcesConfigs ==
  { [set |-> FALSE, list |-> <<>>],
    [set |-> TRUE, list |-> <<>>],
    [set |-> TRUE, list |-> <<"openai", "rss">>],
    [set |-> TRUE, list |-> <<"fallback", "rss">>],
    [set |-> TRUE, list |-> <<"google">>] }

\* values of diversityConfig: null, or similarityThreshold and maxCandidates
DiversityConfigs ==
  { [set |-> FALSE, similarityThreshold |-> Frac(0, 1), maxCandidates |-> 0],
    [set |-> TRUE, similarityThreshold |-> Frac(0, 1), maxCandidates |-> 10],
    [set |-> TRUE, similarityThreshold |-> Frac(1, 4), maxCandidates |-> 2],
    [set |-> TRUE, similarityThreshold |-> Frac(7, 20), maxCandidates |-> 10],
    [set |-> TRUE, similarityThreshold |-> Frac(1, 2), maxCandidates |-> 1] }

\* the histories of RecentHistories handed to setRecentHistory
SelectorHistories == {1, 3, 5}

\* values of process.env.ARTICLE_TOPIC; the empty string is falsy
ManualTopics == { <<>>, <<"E","l","e","c","t","r","i","c"," ","B","i","k","e","s">> }

\* an outcome of an external call that throws
Unavailable == [ok |-> FALSE, topics |-> <<>>]

\* item titles of the RSS feeds, as cleanTitle leaves them
RssTitles == <<
  <<"S","o","l","a","r"," ","p","a","n","e","l"," ","c","o","s","t"," ","g","u","i","d","e">>,
  <<"T","o","p"," ","E","l","e","c","t","r","i","c"," ","B","i","k","e","s"," ","f","o","r"," ","C","o","m","m","u","t","e","r","s">>,
  <<"W","i","n","d"," ","T","u","r","b","i","n","e"," ","N","o","i","s","e">> >>

\* what googleTrends.dailyTrends may deliver
DailyTrends == <<
  [ title |-> <<"S","o","l","a","r"," ","r","o","o","f">>,
    relatedQueries |->
      << >> ],
  [ title |-> <<"W","i","n","d"," ","T","u","r","b","i","n","e"," ","N","o","i","s","e">>,
    relatedQueries |->
      << <<"w","i","n","d"," ","f","a","r","m">>,
         <<"T","u","r","b","i","n","e">> >> ] >>

\* what googleTrends.realTimeTrends may deliver
RealTimeTrends == <<
  [ title |-> <<"E","l","e","c","t","r","i","c"," ","B","i","k","e","s">>,
    relatedQueries |->
      << <<"B","e","s","t">>,
         <<"2","0","2","4">>,
         <<"e","b","i","k","e">>,
         <<"c","o","m","m","u","t","e">>,
         <<"c","i","t","y">> >> ] >>

\* what getRelatedQueries may return; the empty list also stands for a failed call
RelatedQueryLists == { << >>, << <<"s","o","l","a","r">>, <<"p","a","n","e","l">>, <<"c","o","s","t">> >> }

\* topics the chat completion may propose
OpenAITopics == <<
  [ title |-> <<"S","o","l","a","r"," ","P","a","n","e","l"," ","C","o","s","t">>,
    relatedQueries |->
      << <<"s","o","l","a","r">> >> ],
  [ title |-> <<"U","r","b","a","n"," ","G","a","r","d","e","n","i","n","g"," ","B","a","s","i","c","s">>,
    relatedQueries |->
      << <<"b","a","l","c","o","n","y"," ","g","a","r","d","e","n">> >> ] >>


\* the private extractKeywords of TrendsService: the same tokens, the first
\* ten of them
trendsExtractKeywords(text) == sliceTo(diversityExtractKeywords(text), 10)

\* the loop of getRSSTopics over the item titles: empty, short and repeated
\* titles are skipped; the related queries come from the title and the
\* (here empty) description
RECURSIVE rssTopicsFrom(_, _, _, _)
rssTopicsFrom(titles, i, seenTitles, topics) ==
  IF i > Len(titles) THEN topics
  ELSE LET title == titles[i]
       IN IF Len(title) < 10 \/ toLowerCase(title) \in seenTitles
          THEN rssTopicsFrom(titles, i + 1, seenTitles, topics)
          ELSE rssTopicsFrom(titles, i + 1, seenTitles \cup {toLowerCase(title)},
                 Append(topics,
                   [ title |-> title,
                     relatedQueries |->
                       sliceTo(unique(trendsExtractKeywords(title)
                                      \o trendsExtractKeywords(<<>>)), 8) ]))

getRSSTopics(titles) == rssTopicsFrom(titles, 1, {}, <<>>)

\* what getRSSTopics may deliver: a failure, nothing, the topics of the feeds
RssOutcomes ==
  { Unavailable,
    [ok |-> TRUE, topics |-> <<>>],
    [ok |-> TRUE, topics |-> getRSSTopics(RssTitles)] }

\* what getDailyTrends may deliver
DailyOutcomes ==
  { Unavailable, [ok |-> TRUE, topics |-> <<>>], [ok |-> TRUE, topics |-> DailyTrends] }

\* what getRealTimeTrends may deliver
RealTimeOutcomes ==
  { Unavailable, [ok |-> TRUE, topics |-> <<>>], [ok |-> TRUE, topics |-> RealTimeTrends] }

\* isTopicDiverse: without a diversity configuration or without history every
\* topic passes
isTopicDiverse(topic, diversityConfig, recentHistory) ==
  IF ~diversityConfig.set \/ Len(recentHistory) = 0 THEN TRUE
  ELSE ~checkTopicSimilarity(topic.title, topic.relatedQueries, recentHistory,
                             diversityConfig.similarityThreshold).isTooSimilar

\* the orders a Fisher-Yates shuffle may leave a list in
Shuffles(list) ==
  { [i \in DOMAIN list |-> list[p[i]]] : p \in Permutations(DOMAIN list) }

\* a variant of the candidate loop that goes through every candidate and
\* keeps the last one that passes
lastDiverse(candidates, diversityConfig, recentHistory, k) ==
  LET passing == {j \in DOMAIN candidates :
                    isTopicDiverse(candidates[j], diversityConfig, recentHistory)}
  IN [ examined |-> candidates,
       returned |-> IF passing = {} THEN NoTopic
                    ELSE candidates[CHOOSE j \in passing : \A m \in passing : m <= j] ]

\* for (const candidate of candidates) if (isTopicDiverse(candidate)) return
\* candidate: the candidates the filter was applied to, and the one returned
RECURSIVE firstDiverse(_, _, _, _)
firstDiverse(candidates, diversityConfig, recentHistory, k) ==
  IF k > Len(candidates) THEN [examined |-> candidates, returned |-> NoTopic]
  ELSE IF isTopicDiverse(candidates[k], diversityConfig, recentHistory)
       THEN [examined |-> SubSeq(candidates, 1, k), returned |-> candidates[k]]
       ELSE firstDiverse(candidates, diversityConfig, recentHistory, k + 1)

\* the loop over the Google Trends topics: a topic with fewer than 5 related
\* queries first gets those getRelatedQueries returns for it (additional[k])
RECURSIVE firstDiverseTrend(_, _, _, _, _, _)
firstDiverseTrend(topics, additional, diversityConfig, recentHistory, k, examined) ==
  IF k > Len(topics) THEN [examined |-> examined, returned |-> NoTopic]
  ELSE LET topic ==
             IF Len(topics[k].relatedQueries) < 5
             THEN [ title |-> topics[k].title,
                    relatedQueries |-> unique(topics[k].relatedQueries \o additional[k]) ]
             ELSE topics[k]
       IN IF isTopicDiverse(topic, diversityConfig, recentHistory)
          THEN [examined |-> Append(examined, topic), returned |-> topic]
          ELSE firstDiverseTrend(topics, additional, diversityConfig, recentHistory,
                                 k + 1, Append(examined, topic))

\* a variant without a topic
getNoFallbackTopic(randomIndex) == NoTopic

\* getRandomFallbackTopic; randomIndex is floor(random * length), counted from 1
getRandomFallbackTopic(randomIndex) == FALLBACK_TOPICS[randomIndex]

\* one call of trySource as seen from outside: the candidates in the order
\* they were offered to the filter, those the filter was applied to, the
\* value returned, and whether it is the random pick of the fallback pool
Attempt(offered, examined, returned, random) ==
  [offered |-> offered, examined |-> examined, returned |-> returned, random |-> random]

NullAttempt == Attempt(<<>>, <<>>, NoTopic, FALSE)

\* case 'rss'
tryRss(diversityConfig, recentHistory) ==
  UNION { IF ~rssTopics.ok \/ Len(rssTopics.topics) = 0 THEN {NullAttempt}
          ELSE LET maxCandidates == IF diversityConfig.set
                                    THEN diversityConfig.maxCandidates ELSE 10
               IN { LET r == firstDiverse(candidates, diversityConfig, recentHistory, 1)
                    IN Attempt(candidates, r.examined, r.returned, FALSE)
                    : candidates \in Shuffles(sliceTo(rssTopics.topics, maxCandidates)) }
          : rssTopics \in RssOutcomes }

\* case 'google'
tryGoogle(diversityConfig, recentHistory) ==
  UNION { UNION {
    LET topics == IF daily.ok /\ Len(daily.topics) = 0 THEN realTime ELSE daily
    IN IF ~topics.ok \/ Len(topics.topics) = 0 THEN {NullAttempt}
       ELSE { LET r == firstDiverseTrend(topics.topics, additional, diversityConfig,
                                         recentHistory, 1, <<>>)
              IN Attempt(topics.topics, r.examined, r.returned, FALSE)
              : additional \in [DOMAIN topics.topics -> RelatedQueryLists] }
    : realTime \in RealTimeOutcomes } : daily \in DailyOutcomes }

\* getOpenAITopic: null without a client or on any error
OpenAIOutcomes(client) ==
  IF client THEN {NoTopic} \cup Range(OpenAITopics) ELSE {NoTopic}

\* a variant that returns the suggested topic without asking the filter
tryOpenAIUnfiltered(diversityConfig, recentHistory, client) ==
  { IF openaiTopic = NoTopic THEN NullAttempt
    ELSE Attempt(<<openaiTopic>>, <<openaiTopic>>, openaiTopic, FALSE)
    : openaiTopic \in OpenAIOutcomes(client) }

\* case 'openai'
tryOpenAI(diversityConfig, recentHistory, client) ==
  { IF openaiTopic = NoTopic THEN NullAttempt
    ELSE IF isTopicDiverse(openaiTopic, diversityConfig, recentHistory)
         THEN Attempt(<<openaiTopic>>, <<openaiTopic>>, openaiTopic, FALSE)
         ELSE Attempt(<<openaiTopic>>, <<openaiTopic>>, NoTopic, FALSE)
    : openaiTopic \in OpenAIOutcomes(client) }

\* case 'fallback'
tryFallback(diversityConfig, recentHistory) ==
  UNION { LET r == firstDiverse(shuffledFallbacks, diversityConfig, recentHistory, 1)
          IN IF r.returned # NoTopic
             THEN {Attempt(shuffledFallbacks, r.examined, r.returned, FALSE)}
             ELSE { Attempt(shuffledFallbacks, r.examined,
                            getRandomFallbackTopic(randomIndex), TRUE)
                    : randomIndex \in DOMAIN FALLBACK_TOPICS }
          : shuffledFallbacks \in Shuffles(FALLBACK_TOPICS) }

\* trySource: every outcome the call may have
trySource(source, diversityConfig, recentHistory, client) ==
  CASE source = "rss" -> tryRss(diversityConfig, recentHistory)
    [] source = "google" -> tryGoogle(diversityConfig, recentHistory)
    [] source = "openai" -> tryOpenAI(diversityConfig, recentHistory, client)
    [] source = "fallback" -> tryFallback(diversityConfig, recentHistory)
    [] OTHER -> {NullAttempt}

\* the outcomes of trySource for the configurations of the runs, tabulated
SourceNames == {"rss", "google", "openai", "fallback"}

TrySourceTable ==
  [ source \in SourceNames, d \in DiversityConfigs, h \in SelectorHistories,
    c \in BOOLEAN |-> trySource(source, d, RecentHistories[h], c) ]

trySourceOf(source, d, h, c) ==
  IF <<source, d, h, c>> \in DOMAIN TrySourceTable
  THEN TrySourceTable[source, d, h, c]
  ELSE trySource(source, d, RecentHistories[h], c)

\* const sources = this.config.sources || [...]
sourcesOf(config) == IF config.set THEN config.list ELSE DefaultSources

\* a variant that hands on the related queries as they came
manualTopicAsFound(manualTopic, relatedQueries) ==
  [title |-> manualTopic, relatedQueries |-> relatedQueries]

\* the topic returned for ARTICLE_TOPIC: the related queries found for it or,
\* when there are none, the lower-cased topic alone
manualTopicOf(manualTopic, relatedQueries) ==
  [ title |-> manualTopic,
    relatedQueries |-> IF Len(relatedQueries) > 0 THEN relatedQueries
                       ELSE <<toLowerCase(manualTopic)>> ]

(***************************************************************************)
(* getTopicForArticle as a state machine                                   *)
(***************************************************************************)
SelInit ==
  sel \in { [ pc |-> "start", sources |-> s, diversityConfig |-> d, history |-> h,
              manualTopic |-> m, client |-> c, i |-> 1, queried |-> <<>>,
              returns |-> <<>>, offered |-> <<>>, examined |-> <<>>,
              random |-> FALSE, result |-> NoTopic ]
            : s \in SourcesConfigs, d \in DiversityConfigs, h \in SelectorHistories,
              m \in ManualTopics, c \in BOOLEAN }

\* entry of getTopicForArticle: the manual topic wins, with the related
\* queries getRelatedQueries finds or, lacking any, the lower-cased topic
GetTopicForArticle ==
  /\ sel.pc = "start"
  /\ IF sel.manualTopic # <<>>
     THEN \E relatedQueries \in RelatedQueryLists :
            sel' = [sel EXCEPT !.pc = "done",
                      !.result = manualTopicOf(sel.manualTopic, relatedQueries)]
     ELSE sel' = [sel EXCEPT !.pc = "loop"]

\* one round of the loop over the sources: trySource, and return its topic
\* if it has one
TrySource ==
  /\ sel.pc = "loop"
  /\ sel.i <= Len(sourcesOf(sel.sources))
  /\ \E a \in trySourceOf(sourcesOf(sel.sources)[sel.i], sel.diversityConfig,
                          sel.history, sel.client) :
       sel' = [sel EXCEPT !.queried = Append(@, sourcesOf(sel.sources)[sel.i]),
                 !.returns = Append(@, a.returned),
                 !.offered = a.offered,
                 !.examined = a.examined,
                 !.random = a.random,
                 !.pc = IF a.returned # NoTopic THEN "done" ELSE "loop",
                 !.i = IF a.returned # NoTopic THEN @ ELSE @ + 1,
                 !.result = a.returned]

\* the loop is through: a random topic of the fallback pool
LastResort ==
  /\ sel.pc = "loop"
  /\ sel.i > Len(sourcesOf(sel.sources))
  /\ \E randomIndex \in DOMAIN FALLBACK_TOPICS :
       sel' = [sel EXCEPT !.pc = "done", !.random = TRUE,
                 !.result = getRandomFallbackTopic(randomIndex)]

SelSpecInit ==
  ClusterIdle /\ sim = SimIdle /\ SelInit /\ kw = KwIdle /\ pipe = PipeIdle /\ dash = DashIdle

SelNext ==
  \/ GetTopicForArticle /\ UNCHANGED <<clusterVars, sim, kw, pipe, dash>>
  \/ TrySource /\ UNCHANGED <<clusterVars, sim, kw, pipe, dash>>
  \/ LastResort /\ UNCHANGED <<clusterVars, sim, kw, pipe, dash>>

SelSpec == SelSpecInit /\ [][SelNext]_vars

\* every awaited call settles, so a run that can take a step takes it
SelFairSpec == SelSpec /\ WF_vars(SelNext)

(***************************************************************************)
(* Properties of the topic selector                                        *)
(***************************************************************************)
\* the verdict of the diversity filter of the run on a topic
Passes(topic) ==
  isTopicDiverse(topic, sel.diversityConfig, RecentHistories[sel.history])

\* C9: without a manual topic the sources are queried in list order, a source
\* being queried only after every source before it returned null; the filter
\* is applied to the candidates of a source in the order they are offered,
\* the first one that passes is returned and ends the run (no later
\* candidate is examined, no later source queried), and a source returns
\* null only when none of its candidates passed.
C9_SourcesInOrderFirstDiverse ==
  (sel.pc \in {"loop", "done"} /\ sel.manualTopic = <<>>) =>
    LET sources == sourcesOf(sel.sources)
        n == Len(sel.queried)
    IN /\ n <= Len(sources)
       /\ \A k \in 1..n : sel.queried[k] = sources[k]
       /\ Len(sel.returns) = n
       /\ \A k \in 1..n :
            sel.returns[k] # NoTopic => (k = n /\ sel.pc = "done" /\ sel.result = sel.returns[k])
       /\ n > 0 =>
            /\ Len(sel.examined) <= Len(sel.offered)
            /\ \A k \in DOMAIN sel.examined : sel.examined[k].title = sel.offered[k].title
            /\ \A k \in DOMAIN sel.examined : k < Len(sel.examined) => ~Passes(sel.examined[k])
            /\ (sel.returns[n] # NoTopic /\ ~sel.random) =>
                 /\ sel.examined # <<>>
                 /\ sel.returns[n] = sel.examined[Len(sel.examined)]
                 /\ Passes(sel.returns[n])
            /\ (sel.returns[n] = NoTopic \/ sel.random) =>
                 /\ Len(sel.examined) = Len(sel.offered)
                 /\ \A k \in DOMAIN sel.examined : ~Passes(sel.examined[k])

\* a run in which a source was passed over and the next one returned its
\* second candidate, the first having been rejected
C9_Witness ==
  /\ sel.pc = "done"
  /\ sel.manualTopic = <<>>
  /\ Len(sel.queried) >= 2
  /\ Len(sel.examined) >= 2
  /\ Len(sel.offered) > Len(sel.examined)
  /\ ~sel.random
  /\ sel.result = sel.examined[Len(sel.examined)]

\* C10: every run of getTopicForArticle ends, and ends with a topic; when no
\* configured source had a topic, or the fallback source found all of its
\* topics rejected, the topic is one of the static fallback pool.
C10_AlwaysATopic ==
  /\ <>(sel.pc = "done")
  /\ [](sel.pc = "done" =>
          /\ sel.result # NoTopic
          /\ ( /\ sel.manualTopic = <<>>
               /\ \/ \A k \in DOMAIN sel.returns : sel.returns[k] = NoTopic
                  \/ sel.random )
             => sel.result \in Range(FALLBACK_TOPICS))

\* a run over a source list without 'fallback' in which every source came
\* back empty-handed and the topic returned fails the diversity check
C10_Witness ==
  /\ sel.pc = "done"
  /\ sel.manualTopic = <<>>
  /\ sel.sources.set
  /\ Len(sel.queried) = Len(sel.sources.list)
  /\ Len(sel.queried) > 0
  /\ \A k \in DOMAIN sel.queried : sel.queried[k] # "fallback"
  /\ \A k \in DOMAIN sel.returns : sel.returns[k] = NoTopic
  /\ sel.result \in Range(FALLBACK_TOPICS)
  /\ ~Passes(sel.result)

\* C11: with a manual topic set the run ends at once with that very title and
\* a non-empty list of related queries; no source is queried and the
\* diversity filter is applied to nothing, whatever the history holds.
C11_ManualTopicShortCircuits ==
  (sel.pc = "done" /\ sel.manualTopic # <<>>) =>
    /\ sel.result # NoTopic
    /\ sel.result.title = sel.manualTopic
    /\ Len(sel.result.relatedQueries) > 0
    /\ sel.queried = <<>>
    /\ sel.returns = <<>>
    /\ sel.offered = <<>>
    /\ sel.examined = <<>>
    /\ ~sel.random

\* a manual topic returned with the lower-cased topic as its only related
\* query although the diversity filter of the run would reject it
C11_Witness ==
  /\ sel.pc = "done"
  /\ sel.manualTopic # <<>>
  /\ sel.result.title = sel.manualTopic
  /\ sel.result.relatedQueries = <<toLowerCase(sel.manualTopic)>>
  /\ sel.sources.set
  /\ sel.sources.list # <<>>
  /\ sel.diversityConfig.set
  /\ sel.diversityConfig.similarityThreshold.n > 0
  /\ ~Passes(sel.result)

\* C30: a topic returned without a manual override passes the diversity
\* filter of the run or belongs to the static fallback pool, and a topic that
\* came from the feeds, the trend service or the LLM suggestion passes it.
C30_ReturnedPassesOrFallback ==
  (sel.pc = "done" /\ sel.manualTopic = <<>>) =>
    /\ Passes(sel.result) \/ sel.result \in Range(FALLBACK_TOPICS)
    /\ ( /\ sel.queried # <<>>
         /\ sel.queried[Len(sel.queried)] \in {"rss", "google", "openai"}
         /\ ~sel.random )
       => Passes(sel.result)

\* a run with a history in which a source returned, after a candidate the
\* filter rejected, a topic that is not of the fallback pool
C30_Witness ==
  /\ sel.pc = "done"
  /\ sel.manualTopic = <<>>
  /\ sel.diversityConfig.set
  /\ sel.queried # <<>>
  /\ sel.queried[Len(sel.queried)] \in {"rss", "google", "openai"}
  /\ ~sel.random
  /\ Len(sel.examined) >= 2
  /\ ~Passes(sel.examined[1])
  /\ sel.result \notin Range(FALLBACK_TOPICS)
  /\ Passes(sel.result)

(***************************************************************************)
(* KeywordResearchService                                                  *)
(***************************************************************************)
\* a KeywordMetrics value
Metric(keyword, volume, difficulty, trend, intent) ==
  [ keyword |-> keyword, estimatedVolume |-> volume, estimatedDifficulty |-> difficulty,
    intent |-> intent, trend |-> trend, source |-> "gpt" ]

\* candidates as researchKeywords and classifyIntent hand them on; 1 and 9
\* carry the same keyword, 6 differs from them in case only
Candidates == <<
  Metric(<<"E","b","i","k","e">>, "high", 20, "rising", "informational"),
  Metric(<<"e","b","i","k","e"," ","r","a","n","g","e">>, "medium", 50, "stable", "commercial"),
  Metric(<<"S","o","l","a","r">>, "low", 80, "declining", "transactional"),
  Metric(<<"s","o","l","a","r"," ","c","o","s","t">>, "very_low", 0, "rising", "commercial"),
  Metric(<<"w","i","n","d">>, "high", 100, "stable", "navigational"),
  Metric(<<"e","b","i","k","e">>, "high", 20, "rising", "informational"),
  Metric(<<"r","o","o","f">>, "medium", 50, "stable", "commercial"),
  Metric(<<"g","r","i","d">>, "low", 40, "stable", "informational"),
  Metric(<<"E","b","i","k","e">>, "medium", 35, "stable", "transactional"),
  Metric(<<"l","o","a","n">>, "medium", 60, "rising", "transactional"),
  Metric(<<"h","e","a","t"," ","p","u","m","p">>, "low", 10, "rising", "commercial"),
  Metric(<<"t","a","r","i","f","f">>, "very_low", 90, "declining", "navigational") >>

\* candidate lists, as positions in Candidates
CandidateLists ==
  { <<>>, <<8>>, <<1, 2, 3>>, <<3, 2, 1>>, <<1, 9>>, <<6, 1>>, <<2, 7, 4, 5>>,
    <<3, 1, 2, 4, 5, 7, 8, 10>>, <<1, 2, 3, 4, 5, 6, 7, 8, 9, 10, 11, 12>> }

candidatesOf(list) == [i \in DOMAIN list |-> Candidates[list[i]]]


\* a CannibalizationResult
CannResult(keyword, overlappingArticles, isCannibalized, suggestedLongTails) ==
  [ keyword |-> keyword, overlappingArticles |-> overlappingArticles,
    isCannibalized |-> isCannibalized, suggestedLongTails |-> suggestedLongTails ]

\* the shapes of cannibalization list handed to scoreAndPrioritize: a result
\* per candidate, the same with lower-cased keywords, results for the
\* cannibalized candidates only
CannStyles == {"exact", "lowered", "flaggedOnly"}

\* the sets of positions marked as cannibalized
FlagSets(list) ==
  { S \in SUBSET DOMAIN list : Cardinality(S) <= 2 \/ Cardinality(S) >= Len(list) - 1 }

cannibalizationOf(candidates, flagged, style) ==
  LET all == [i \in DOMAIN candidates |->
                CannResult(IF style = "lowered" THEN toLowerCase(candidates[i].keyword)
                           ELSE candidates[i].keyword,
                           <<>>, i \in flagged, <<>>)]
  IN IF style = "flaggedOnly" THEN SelectSeq(all, LAMBDA r : r.isCannibalized) ELSE all

\* cannibalizationMap.get(keyword.toLowerCase())?.isCannibalized || false:
\* of several results under one key the Map keeps the last
isCannibalizedIn(cannibalization, keyword) ==
  LET hits == {i \in DOMAIN cannibalization :
                 toLowerCase(cannibalization[i].keyword) = toLowerCase(keyword)}
  IN IF hits = {} THEN FALSE
     ELSE cannibalization[CHOOSE i \in hits : \A j \in hits : j <= i].isCannibalized

\* volumeScore[v] || 40
volumeScore(v) ==
  CASE v = "high" -> 100 [] v = "medium" -> 70 [] v = "low" -> 40
    [] v = "very_low" -> 15 [] OTHER -> 40

\* trendBonus[t] || 60
trendBonus(t) ==
  CASE t = "rising" -> 100 [] t = "stable" -> 60 [] t = "declining" -> 20 [] OTHER -> 60

\* the score of a candidate in hundredths: the weights 0.3, 0.25, 0.2, 0.15
\* and 0.1 are taken as 30, 25, 20, 15 and 10
scoreOf(candidate, isCannibalized) ==
  volumeScore(candidate.estimatedVolume) * 30
  + (100 - candidate.estimatedDifficulty) * 25
  + 70 * 20
  + trendBonus(candidate.trend) * 15
  + (IF isCannibalized THEN 0 ELSE 100) * 10

\* candidates.map(...): one entry per candidate; id stands for the identity
\* of the entry object
scoredOf(candidates, cannibalization) ==
  [ i \in DOMAIN candidates |->
      LET isCannibalized == isCannibalizedIn(cannibalization, candidates[i].keyword)
      IN [ id |-> i, candidate |-> candidates[i],
           score |-> scoreOf(candidates[i], isCannibalized),
           isCannibalized |-> isCannibalized ] ]

\* scored.sort((a, b) => b.score - a.score): descending, entries of equal
\* score keep their order
RECURSIVE sortByScore(_, _, _)
sortByScore(scored, i, acc) ==
  IF i > Len(scored) THEN acc
  ELSE LET before == SelectSeq(acc, LAMBDA e : e.score >= scored[i].score)
           after == SelectSeq(acc, LAMBDA e : e.score < scored[i].score)
       IN sortByScore(scored, i + 1, before \o <<scored[i]>> \o after)

\* a variant that takes the first entry of the sorted list, cannibalized or not
primaryEntryTop(scored, nonCannibalized) == scored[1]

\* nonCannibalized.length > 0 ? nonCannibalized[0] : scored[0]
primaryEntryOf(scored, nonCannibalized) ==
  IF Len(nonCannibalized) > 0 THEN nonCannibalized[1] ELSE scored[1]

\* a variant that keeps every other entry of the sorted list
secondaryEntriesAll(scored, nonCannibalized, primaryEntry) ==
  sliceTo(SelectSeq(scored, LAMBDA s : s.id # primaryEntry.id), 5)

\* nonCannibalized.filter(s => s !== primaryEntry).slice(0, 5)
secondaryEntriesOf(scored, nonCannibalized, primaryEntry) ==
  sliceTo(SelectSeq(nonCannibalized, LAMBDA s : s.id # primaryEntry.id), 5)

\* the tally of the intents in a Map: its keys in insertion order
intentKeys(list) == unique([i \in DOMAIN list |-> list[i].intent])

intentCount(list, intent) == Cardinality({i \in DOMAIN list : list[i].intent = intent})

\* a variant of the second loop that also takes over an equal count
RECURSIVE dominantIntentLast(_, _, _, _, _)
dominantIntentLast(list, keys, k, maxCount, dominantIntent) ==
  IF k > Len(keys) THEN dominantIntent
  ELSE IF intentCount(list, keys[k]) >= maxCount
       THEN dominantIntentLast(list, keys, k + 1, intentCount(list, keys[k]), keys[k])
       ELSE dominantIntentLast(list, keys, k + 1, maxCount, dominantIntent)

\* for (const [intent, count] of intentCounts) if (count > maxCount) ...
RECURSIVE dominantIntentOf(_, _, _, _, _)
dominantIntentOf(list, keys, k, maxCount, dominantIntent) ==
  IF k > Len(keys) THEN dominantIntent
  ELSE IF intentCount(list, keys[k]) > maxCount
       THEN dominantIntentOf(list, keys, k + 1, intentCount(list, keys[k]), keys[k])
       ELSE dominantIntentOf(list, keys, k + 1, maxCount, dominantIntent)

\* the call throws
Thrown == [ok |-> FALSE]

\* scoreAndPrioritize; with no candidate primaryEntry is undefined and
\* reading its candidate throws. primaryId and secondaryIds tell which entries
\* the plan's candidates were taken from
scoreAndPrioritize(candidates, cannibalization) ==
  IF Len(candidates) = 0 THEN Thrown
  ELSE LET scored == sortByScore(scoredOf(candidates, cannibalization), 1, <<>>)
           nonCannibalized == SelectSeq(scored, LAMBDA s : ~s.isCannibalized)
           primaryEntry == primaryEntryOf(scored, nonCannibalized)
           entries == secondaryEntriesOf(scored, nonCannibalized, primaryEntry)
           secondary == [j \in DOMAIN entries |-> entries[j].candidate]
           tallied == <<primaryEntry.candidate>> \o secondary
       IN [ ok |-> TRUE,
            plan |-> [ primary |-> primaryEntry.candidate,
                       secondary |-> secondary,
                       longTails |-> <<>>,
                       intentProfile |-> dominantIntentOf(tallied, intentKeys(tallied), 1, 0,
                                                          "informational"),
                       cannibalizationReport |-> cannibalization,
                       score |-> primaryEntry.score ],
            primaryId |-> primaryEntry.id,
            secondaryIds |-> [j \in DOMAIN entries |-> entries[j].id] ]

(***************************************************************************)
(* loadExistingArticles                                                    *)
(***************************************************************************)
\* a file that does not exist, a file JSON.parse rejects, a file with data
FileMissing == [exists |-> FALSE]

FileUnparsable == [exists |-> TRUE, parses |-> FALSE]

FileWith(data) == [exists |-> TRUE, parses |-> TRUE, data |-> data]

\* a record of history.json or an article of a cluster; "" is a title or
\* slug that is missing or empty
Stored(title, slug, keywords) == [title |-> title, slug |-> slug, keywords |-> keywords]

\* the contents of history.json: an array of records, or an object whose
\* articles are the records
HistoryFiles ==
  { FileMissing, FileUnparsable,
    FileWith([isArray |-> TRUE, records |-> <<>>]),
    FileWith([isArray |-> TRUE, records |-> <<Stored("A", "a", <<"x">>)>>]),
    FileWith([isArray |-> TRUE,
              records |-> <<Stored("A", "a", <<"x">>), Stored("B", "b", <<>>)>>]),
    FileWith([isArray |-> TRUE,
              records |-> <<Stored("A", "a", <<"x">>), Stored("A again", "a", <<"y">>)>>]),
    FileWith([isArray |-> TRUE,
              records |-> <<Stored("", "n", <<>>), Stored("B", "b", <<>>),
                            Stored("N", "", <<>>)>>]),
    FileWith([isArray |-> FALSE, records |-> <<Stored("C", "c", <<"z">>)>>]),
    FileWith([isArray |-> FALSE, records |-> <<>>]) }

\* a cluster of topic-clusters.json; a broken one makes the loop over the
\* clusters throw
StoredCluster(articles) == [broken |-> FALSE, articles |-> articles]

BrokenCluster == [broken |-> TRUE]

\* the contents of topic-clusters.json
ClustersFiles ==
  { FileMissing, FileUnparsable,
    FileWith(<<>>),
    FileWith(<<StoredCluster(<<Stored("A2", "a", <<"x">>), Stored("C", "c", <<>>)>>)>>),
    FileWith(<<StoredCluster(<<Stored("C", "c", <<>>)>>),
               StoredCluster(<<Stored("C2", "c", <<"w">>), Stored("D", "d", <<>>)>>)>>),
    FileWith(<<StoredCluster(<<Stored("", "e", <<>>), Stored("B2", "b", <<>>)>>),
               StoredCluster(<<>>)>>),
    FileWith(<<StoredCluster(<<Stored("D", "d", <<>>)>>), BrokenCluster,
               StoredCluster(<<Stored("E", "e", <<>>)>>)>>) }

\* the first loop: every record with a title and a slug is pushed
RECURSIVE loadHistory(_, _, _)
loadHistory(records, i, articles) ==
  IF i > Len(records) THEN articles
  ELSE IF records[i].title # "" /\ records[i].slug # ""
       THEN loadHistory(records, i + 1, Append(articles, records[i]))
       ELSE loadHistory(records, i + 1, articles)

\* the articles the second loop visits, in order, up to the cluster at which
\* it throws
RECURSIVE visitedArticles(_, _)
visitedArticles(storedClusters, c) ==
  IF c > Len(storedClusters) \/ storedClusters[c].broken THEN <<>>
  ELSE storedClusters[c].articles \o visitedArticles(storedClusters, c + 1)

\* the second loop: an article with a title and a slug is pushed unless an
\* entry with its slug is there already
RECURSIVE loadClusterArticles(_, _, _)
loadClusterArticles(visited, i, articles) ==
  IF i > Len(visited) THEN articles
  ELSE IF /\ visited[i].title # "" /\ visited[i].slug # ""
          /\ ~\E k \in DOMAIN articles : articles[k].slug = visited[i].slug
       THEN loadClusterArticles(visited, i + 1, Append(articles, visited[i]))
       ELSE loadClusterArticles(visited, i + 1, articles)

\* loadExistingArticles: each file is read inside its own try/catch
loadExistingArticles(historyFile, clustersFile) ==
  LET fromHistory ==
        IF historyFile.exists /\ historyFile.parses
        THEN loadHistory(historyFile.data.records, 1, <<>>)
        ELSE <<>>
  IN IF clustersFile.exists /\ clustersFile.parses
     THEN loadClusterArticles(visitedArticles(clustersFile.data, 1), 1, fromHistory)
     ELSE fromHistory

(***************************************************************************)
(* checkCannibalization                                                    *)
(***************************************************************************)
\* an overlapping article of a collaborator result; the similarity is in
\* hundredths
Overlap(slug, similarity) ==
  [ title |-> slug, slug |-> slug, similarity |-> similarity, matchedKeywords |-> <<>> ]

\* what the collaborator says of one keyword: the overlapping articles and the
\* isCannibalized flag, which it is free to set either way
Verdicts ==
  { [overlappingArticles |-> o, isCannibalized |-> f]
    : o \in { <<>>, <<Overlap("a", 30)>>, <<Overlap("a", 60)>>, <<Overlap("a", 61)>>,
              <<Overlap("a", 30), Overlap("b", 90)>> },
      f \in BOOLEAN }

\* the outcomes of the one completion: the call throws, the content is no
\* JSON, the JSON has no results, or it has results: one per keyword with
\* the same verdict, for the odd positions only, or with a result for a
\* keyword that was not asked about put in front
Replies ==
  { [kind |-> "throws"], [kind |-> "unparsable"], [kind |-> "noResults"] }
  \cup { [kind |-> k, verdict |-> v] : k \in {"each", "odd", "extra"}, v \in Verdicts }

\* parsed.results of a reply with results
repliedResults(reply, keywordStrings) ==
  LET each == [i \in DOMAIN keywordStrings |->
                 CannResult(keywordStrings[i], reply.verdict.overlappingArticles,
                            reply.verdict.isCannibalized, <<>>)]
  IN CASE reply.kind = "each" -> each
       [] reply.kind = "odd" ->
            [j \in 1..((Len(each) + 1) \div 2) |-> each[2 * j - 1]]
       [] reply.kind = "extra" ->
            <<CannResult(<<"x">>, <<Overlap("b", 90)>>, TRUE, <<>>)>> \o each

\* a result that reports no overlap
notCannibalized(candidate) == CannResult(candidate.keyword, <<>>, FALSE, <<>>)

\* a variant that hands all candidates to the collaborator
topCandidatesAll(candidates) == candidates

\* candidates.slice(0, 10)
topCandidatesOf(candidates) == sliceTo(candidates, 10)

\* a variant of the catch block that reports nothing for the candidates
checkedAfterFailureNone(topCandidates) == <<>>

\* the catch block: every candidate handed to the collaborator counts as not
\* cannibalized
checkedAfterFailure(topCandidates) ==
  [i \in DOMAIN topCandidates |-> notCannibalized(topCandidates[i])]

\* parsed.results.map(...): the fields of every result are taken over as
\* they are
checkedFrom(results) ==
  [i \in DOMAIN results |->
     CannResult(results[i].keyword, results[i].overlappingArticles,
                results[i].isCannibalized, results[i].suggestedLongTails)]

\* checkCannibalization; calls counts the completions requested and submitted
\* holds the keywords of each
checkCannibalization(candidates, existingArticles, reply) ==
  IF Len(existingArticles) = 0
  THEN [ ok |-> TRUE, calls |-> 0, submitted |-> <<>>,
         results |-> [i \in DOMAIN candidates |-> notCannibalized(candidates[i])] ]
  ELSE LET topCandidates == topCandidatesOf(candidates)
           keywordStrings == [i \in DOMAIN topCandidates |-> topCandidates[i].keyword]
           checkedResults ==
             IF reply.kind \in {"throws", "unparsable", "noResults"}
             THEN checkedAfterFailure(topCandidates)
             ELSE checkedFrom(repliedResults(reply, keywordStrings))
           rest == SubSeq(candidates, 11, Len(candidates))
       IN [ ok |-> TRUE, calls |-> 1, submitted |-> <<keywordStrings>>,
            results |-> checkedResults \o [i \in DOMAIN rest |-> notCannibalized(rest[i])] ]

(***************************************************************************)
(* researchKeywords                                                        *)
(***************************************************************************)
\* values of a parsed response: strings, numbers (NaN among them), null, and
\* undefined for a field that is missing
Str(v) == [t |-> "string", v |-> v]

Num(v) == [t |-> "number", nan |-> FALSE, v |-> v]

NaN == [t |-> "number", nan |-> TRUE]

Null == [t |-> "null"]

Undefined == [t |-> "undefined"]

\* the value of a string of decimal digits
RECURSIVE digitsValue(_, _, _)
digitsValue(s, i, acc) ==
  IF i > Len(s) THEN acc
  ELSE digitsValue(s, i + 1,
         acc * 10 + (CHOOSE d \in 0..9 : <<"0","1","2","3","4","5","6","7","8","9">>[d + 1] = s[i]))

\* ToNumber, as Math.max and Math.min apply it to their arguments: undefined
\* and a string that is no numeral give NaN, null and the empty string give 0
toNumber(x) ==
  CASE x.t = "number" -> x
    [] x.t = "string" ->
         IF \A i \in DOMAIN x.v : x.v[i] \in DigitChars THEN Num(digitsValue(x.v, 1, 0)) ELSE NaN
    [] x.t = "null" -> Num(0)
    [] x.t = "undefined" -> NaN

\* Math.max and Math.min of two arguments: NaN when either is NaN
mathMax(a, b) ==
  LET x == toNumber(a)
      y == toNumber(b)
  IN IF x.nan \/ y.nan THEN NaN ELSE IF x.v >= y.v THEN x ELSE y

mathMin(a, b) ==
  LET x == toNumber(a)
      y == toNumber(b)
  IN IF x.nan \/ y.nan THEN NaN ELSE IF x.v <= y.v THEN x ELSE y

validVolumes == <<"high", "medium", "low", "very_low">>

validTrends == <<"rising", "stable", "declining">>

\* validVolumes.includes(v) ? v : 'low'
volumeOf(v) == IF v.t = "string" /\ v.v \in Range(validVolumes) THEN v.v ELSE "low"

\* validTrends.includes(t) ? t : 'stable'
trendOf(v) == IF v.t = "string" /\ v.v \in Range(validTrends) THEN v.v ELSE "stable"

\* Math.min(100, Math.max(0, m.estimatedDifficulty))
difficultyOf(v) == mathMin(Num(100), mathMax(Num(0), v))

\* a KeywordSuggestion
Suggestion(keyword, source) == [keyword |-> keyword, source |-> source]

\* the suggestions a provider gives for a seed: the seed and the topic in
\* another case, eight keywords of its own, or a failure, for the first
\* seed only or for all
suggestionsOf(provider, k, seed) ==
  CASE provider.style = "throws" -> Thrown
    [] provider.style = "flaky" /\ k = 1 -> Thrown
    [] provider.style = "many" ->
         [ ok |-> TRUE,
           list |-> [j \in 1..8 |->
                       Suggestion(<<"k", <<"1","2","3","4">>[k],
                                    <<"1","2","3","4","5","6","7","8">>[j]>>,
                                  provider.name)] ]
    [] OTHER ->
         [ ok |-> TRUE,
           list |-> <<Suggestion(seed, provider.name),
                      Suggestion(<<"E","V">>, provider.name)>> ]

\* the two loops over the providers and the seeds
RECURSIVE gatherSuggestions(_, _, _, _, _)
gatherSuggestions(providers, seeds, p, k, allSuggestions) ==
  IF p > Len(providers) THEN allSuggestions
  ELSE IF ~providers[p].available \/ k > Len(seeds)
       THEN gatherSuggestions(providers, seeds, p + 1, 1, allSuggestions)
       ELSE LET got == suggestionsOf(providers[p], k, seeds[k])
            IN gatherSuggestions(providers, seeds, p, k + 1,
                 IF got.ok THEN allSuggestions \o got.list ELSE allSuggestions)

\* allSuggestions.filter(...): the first suggestion of every lower-cased
\* keyword
RECURSIVE uniqueSuggestions(_, _, _)
uniqueSuggestions(allSuggestions, i, acc) ==
  IF i > Len(allSuggestions) THEN acc
  ELSE uniqueSuggestions(allSuggestions, i + 1,
         IF \E k \in DOMAIN acc :
              toLowerCase(acc[k].keyword) = toLowerCase(allSuggestions[i].keyword)
         THEN acc ELSE Append(acc, allSuggestions[i]))

\* unique.find(...)?.source || 'gpt'
sourceOf(uniq, keyword) ==
  LET hits == {k \in DOMAIN uniq : toLowerCase(uniq[k].keyword) = toLowerCase(keyword)}
  IN IF hits = {} THEN "gpt" ELSE uniq[CHOOSE k \in hits : \A h \in hits : k <= h].source

\* the KeywordMetrics made of one entry of parsed.metrics
metricOf(m, uniq) ==
  [ keyword |-> m.keyword, estimatedVolume |-> volumeOf(m.estimatedVolume),
    estimatedDifficulty |-> difficultyOf(m.estimatedDifficulty),
    intent |-> "informational", trend |-> trendOf(m.trend),
    source |-> sourceOf(uniq, m.keyword) ]

\* researchKeywords: the completion and the parsing of its response are not
\* guarded, so their failure is the failure of the call; asked holds the
\* keywords put into the prompt
researchKeywords(topic, relatedQueries, providers, reply) ==
  LET seeds == <<topic>> \o sliceTo(relatedQueries, 3)
      uniq == uniqueSuggestions(gatherSuggestions(providers, seeds, 1, 1, <<>>), 1, <<>>)
      top == sliceTo(uniq, 30)
      asked == [i \in DOMAIN top |-> top[i].keyword]
  IN IF reply.kind \in {"throws", "unparsable", "noMetrics"} THEN Thrown
     ELSE [ ok |-> TRUE, asked |-> asked, unique |-> Len(uniq),
            metrics |-> [i \in DOMAIN reply.metrics |-> metricOf(reply.metrics[i], uniq)] ]

(***************************************************************************)
(* expandLongTails                                                         *)
(***************************************************************************)
\* the loop over the providers: of the suggestions of every available
\* provider that answers, the keywords of at least 4 words
RECURSIVE autocompleteLongTailsOf(_, _, _, _)
autocompleteLongTailsOf(providers, primaryKeyword, p, acc) ==
  IF p > Len(providers) THEN acc
  ELSE IF ~providers[p].available
       THEN autocompleteLongTailsOf(providers, primaryKeyword, p + 1, acc)
       ELSE LET got == suggestionsOf(providers[p], 1, primaryKeyword)
                keywords == IF got.ok THEN [j \in DOMAIN got.list |-> got.list[j].keyword]
                            ELSE <<>>
            IN autocompleteLongTailsOf(providers, primaryKeyword, p + 1,
                 acc \o SelectSeq(keywords, LAMBDA k : Len(splitWhitespace(k)) >= 4))

\* expandLongTails: the completion and the parsing of its response are not
\* guarded, so their failure is the failure of the call
expandLongTails(primaryKeyword, providers, reply) ==
  LET autocompleteLongTails == autocompleteLongTailsOf(providers, primaryKeyword, 1, <<>>)
  IN IF reply.kind \in {"throws", "unparsable", "noLongTails"} THEN Thrown
     ELSE [ ok |-> TRUE, list |-> unique(autocompleteLongTails \o reply.longTails) ]

(***************************************************************************)
(* Calls of the keyword research service                                   *)
(***************************************************************************)
\* the providers the service was built with
Provider(name, available, style) == [name |-> name, available |-> available, style |-> style]

ProviderLists ==
  { <<>>,
    <<Provider("autocomplete", TRUE, "seeded")>>,
    <<Provider("autocomplete", FALSE, "seeded")>>,
    <<Provider("autocomplete", TRUE, "throws")>>,
    <<Provider("autocomplete", TRUE, "flaky"), Provider("planner", TRUE, "seeded")>>,
    <<Provider("autocomplete", TRUE, "many"), Provider("planner", TRUE, "seeded")>> }

ResearchQueries ==
  { <<>>, <<<<"a">>>>, <<<<"a">>, <<"b">>, <<"c">>, <<"d">>>> }

\* an entry of parsed.metrics
RawMetric(keyword, volume, difficulty, trend) ==
  [ keyword |-> keyword, estimatedVolume |-> volume, estimatedDifficulty |-> difficulty,
    trend |-> trend ]

RawVolumes == { Str("high"), Str("very_low"), Str("HIGH"), Num(3), Undefined }

RawDifficulties ==
  { Num(0 - 5), Num(0), Num(55), Num(100), Num(150), Str(<<"5","0">>), Str(<<"1","5","0">>),
    Str(<<"h","a","r","d">>), Str(<<>>), Null, Undefined, NaN }

RawTrends == { Str("rising"), Str("declining"), Str("up"), Null, Undefined }

\* the outcomes of the completion of researchKeywords
ResearchReplies ==
  { [kind |-> "throws"], [kind |-> "unparsable"], [kind |-> "noMetrics"],
    [kind |-> "metrics", metrics |-> <<>>] }
  \cup { [kind |-> "metrics", metrics |-> <<RawMetric(<<"e","v">>, v, d, t)>>]
         : v \in RawVolumes, d \in RawDifficulties, t \in RawTrends }
  \cup { [kind |-> "metrics",
          metrics |-> <<RawMetric(<<"k","1","1">>, Str("medium"), Num(40), Str("stable")),
                        RawMetric(<<"n","e","w">>, Str("low"), d, Str("rising")),
                        RawMetric(<<"a">>, Str("huge"), Num(150), Str("up"))>>]
         : d \in RawDifficulties }

\* calls of researchKeywords
ResearchCalls ==
  { [ pc |-> "called", op |-> "researchKeywords", topic |-> <<"e","v">>,
      relatedQueries |-> q, providers |-> p, reply |-> r ]
    : q \in ResearchQueries, p \in ProviderLists,
      r \in { [kind |-> "throws"], [kind |-> "metrics", metrics |-> <<>>],
              [kind |-> "metrics",
               metrics |-> <<RawMetric(<<"e","v">>, Str("high"), Num(150), Str("up"))>>] } }
  \cup
  { [ pc |-> "called", op |-> "researchKeywords", topic |-> <<"e","v">>,
      relatedQueries |-> <<<<"a">>>>,
      providers |-> <<Provider("autocomplete", TRUE, "many"), Provider("planner", TRUE, "seeded")>>,
      reply |-> r ]
    : r \in ResearchReplies }

ResearchKeywords ==
  /\ kw.pc = "called"
  /\ kw.op = "researchKeywords"
  /\ kw' = [ pc |-> "returned", op |-> kw.op, topic |-> kw.topic,
             relatedQueries |-> kw.relatedQueries, providers |-> kw.providers,
             reply |-> kw.reply,
             result |-> researchKeywords(kw.topic, kw.relatedQueries, kw.providers, kw.reply) ]

\* the candidate lists checkCannibalization is called with; in the last one
\* the candidate at position 11 carries the keyword of the first
CheckLists ==
  CandidateLists \cup { <<1, 2, 3, 4, 5, 7, 8, 10, 11, 12, 9>> }

\* the files checkCannibalization finds
CheckFiles ==
  { <<FileMissing, FileMissing>>,
    <<FileUnparsable, FileWith(<<>>)>>,
    <<FileWith([isArray |-> TRUE, records |-> <<Stored("A", "a", <<"x">>)>>]), FileMissing>>,
    <<FileWith([isArray |-> TRUE,
                records |-> <<Stored("A", "a", <<"x">>), Stored("B", "b", <<>>)>>]),
      FileWith(<<StoredCluster(<<Stored("A2", "a", <<"x">>), Stored("C", "c", <<>>)>>)>>)>> }

\* calls of checkCannibalization
CheckCalls ==
  { [ pc |-> "called", op |-> "checkCannibalization", list |-> list,
      historyFile |-> f[1], clustersFile |-> f[2], reply |-> reply ]
    : list \in CheckLists, f \in CheckFiles, reply \in Replies }

CheckCannibalization ==
  /\ kw.pc = "called"
  /\ kw.op = "checkCannibalization"
  /\ kw' = [ pc |-> "returned", op |-> kw.op, list |-> kw.list,
             historyFile |-> kw.historyFile, clustersFile |-> kw.clustersFile,
             reply |-> kw.reply,
             result |-> checkCannibalization(
                          candidatesOf(kw.list),
                          loadExistingArticles(kw.historyFile, kw.clustersFile),
                          kw.reply) ]

\* calls of loadExistingArticles
LoadCalls ==
  { [ pc |-> "called", op |-> "loadExistingArticles", historyFile |-> h, clustersFile |-> c ]
    : h \in HistoryFiles, c \in ClustersFiles }

LoadExistingArticles ==
  /\ kw.pc = "called"
  /\ kw.op = "loadExistingArticles"
  /\ kw' = [ pc |-> "returned", op |-> kw.op, historyFile |-> kw.historyFile,
             clustersFile |-> kw.clustersFile,
             result |-> loadExistingArticles(kw.historyFile, kw.clustersFile) ]

\* calls of scoreAndPrioritize
ScoreCalls ==
  UNION { { [ pc |-> "called", op |-> "scoreAndPrioritize", list |-> list,
              flagged |-> flagged, style |-> style ]
            : flagged \in FlagSets(list), style \in CannStyles }
          : list \in CandidateLists }

ScoreAndPrioritize ==
  /\ kw.pc = "called"
  /\ kw.op = "scoreAndPrioritize"
  /\ kw' = [ pc |-> "returned", op |-> kw.op, list |-> kw.list, flagged |-> kw.flagged,
             style |-> kw.style,
             result |-> scoreAndPrioritize(
                          candidatesOf(kw.list),
                          cannibalizationOf(candidatesOf(kw.list), kw.flagged, kw.style)) ]

\* the primary keywords expandLongTails is called with
PrimaryKeywords == { <<"e","v">>,
                     <<"e","v"," ","r","a","n","g","e"," ","i","n"," ","w","i","n","t","e","r">>,
                     <<" ","e","v"," "," ","c","h","a","r","g","e","r"," ","c","o","s","t">> }

\* the outcomes of the completion of expandLongTails
LongTailReplies ==
  { [kind |-> "throws"], [kind |-> "unparsable"], [kind |-> "noLongTails"],
    [kind |-> "longTails", longTails |-> <<>>],
    [kind |-> "longTails", longTails |-> <<<<"e","v"," ","r","a","n","g","e"," ","i","n"," ","w","i","n","t","e","r">>>>],
    [kind |-> "longTails", longTails |-> <<<<"x"," ","y">>, <<"e","v"," ","r","a","n","g","e"," ","i","n"," ","w","i","n","t","e","r">>, <<"x"," ","y">>>>] }

\* calls of expandLongTails
ExpandCalls ==
  { [ pc |-> "called", op |-> "expandLongTails", primaryKeyword |-> k, providers |-> p,
      reply |-> r ]
    : k \in PrimaryKeywords, p \in ProviderLists, r \in LongTailReplies }

ExpandLongTails ==
  /\ kw.pc = "called"
  /\ kw.op = "expandLongTails"
  /\ kw' = [ pc |-> "returned", op |-> kw.op, primaryKeyword |-> kw.primaryKeyword,
             providers |-> kw.providers, reply |-> kw.reply,
             result |-> expandLongTails(kw.primaryKeyword, kw.providers, kw.reply) ]

\* calls of buildKeywordPlan: the metrics reply carries numbers only, and
\* classifyIntent throws or gives every keyword one intent
PlanCalls ==
  { [ pc |-> "called", op |-> "buildKeywordPlan", topic |-> <<"e","v">>,
      relatedQueries |-> <<<<"a">>>>, providers |-> p, reply |-> r, intent |-> i ]
    : p \in ProviderLists,
      r \in { [kind |-> "throws"], [kind |-> "metrics", metrics |-> <<>>],
              [kind |-> "metrics",
               metrics |-> <<RawMetric(<<"e","v">>, Str("high"), Num(150), Str("up"))>>],
              [kind |-> "metrics",
               metrics |-> <<RawMetric(<<"a">>, Str("low"), Num(30), Str("rising")),
                             RawMetric(<<"e","v">>, Str("huge"), Num(0), Str("stable"))>>] },
      i \in {"throws", "commercial"} }

\* the KeywordMetrics of researchKeywords as classifyIntent hands them on
classified(candidates, intent) ==
  [ i \in DOMAIN candidates |->
      Metric(candidates[i].keyword, candidates[i].estimatedVolume,
             candidates[i].estimatedDifficulty.v, candidates[i].trend,
             IF intent = "throws" THEN candidates[i].intent ELSE intent) ]

\* buildKeywordPlan up to the plan of step 4: researchKeywords, the
\* cannibalization check (it throws or finds no overlap: no candidate is
\* flagged), classifyIntent, scoreAndPrioritize; research is what step 1
\* returned
buildKeywordPlan(topic, relatedQueries, providers, reply, intent) ==
  LET research == researchKeywords(topic, relatedQueries, providers, reply)
  IN IF ~research.ok THEN [ok |-> FALSE, research |-> research]
     ELSE LET candidates == classified(research.metrics, intent)
              plan == scoreAndPrioritize(candidates,
                                         cannibalizationOf(candidates, {}, "exact"))
          IN IF plan.ok THEN [ok |-> TRUE, research |-> research, plan |-> plan.plan]
             ELSE [ok |-> FALSE, research |-> research]

BuildKeywordPlan ==
  /\ kw.pc = "called"
  /\ kw.op = "buildKeywordPlan"
  /\ kw' = [ pc |-> "returned", op |-> kw.op, topic |-> kw.topic,
             relatedQueries |-> kw.relatedQueries, providers |-> kw.providers,
             reply |-> kw.reply, intent |-> kw.intent,
             result |-> buildKeywordPlan(kw.topic, kw.relatedQueries, kw.providers,
                                         kw.reply, kw.intent) ]

\* the calls a run starts from
KwCalls ==
  ScoreCalls \cup LoadCalls \cup CheckCalls \cup ResearchCalls \cup ExpandCalls
    \cup PlanCalls

KwSpecInit ==
  /\ ClusterIdle /\ sim = SimIdle /\ sel = SelIdle /\ pipe = PipeIdle /\ dash = DashIdle
  /\ kw \in KwCalls

KwNext ==
  \/ ScoreAndPrioritize /\ UNCHANGED <<clusterVars, sim, sel, pipe, dash>>
  \/ LoadExistingArticles /\ UNCHANGED <<clusterVars, sim, sel, pipe, dash>>
  \/ CheckCannibalization /\ UNCHANGED <<clusterVars, sim, sel, pipe, dash>>
  \/ ResearchKeywords /\ UNCHANGED <<clusterVars, sim, sel, pipe, dash>>
  \/ ExpandLongTails /\ UNCHANGED <<clusterVars, sim, sel, pipe, dash>>
  \/ BuildKeywordPlan /\ UNCHANGED <<clusterVars, sim, sel, pipe, dash>>

KwSpec == KwSpecInit /\ [][KwNext]_vars

(***************************************************************************)
(* Properties of scoreAndPrioritize                                        *)
(***************************************************************************)
\* a call of scoreAndPrioritize that returned a plan
Scored == kw.pc = "returned" /\ kw.op = "scoreAndPrioritize" /\ kw.result.ok

ScoreInput == candidatesOf(kw.list)

ScoreReport == cannibalizationOf(ScoreInput, kw.flagged, kw.style)

\* candidate i of the call counts as cannibalized
Cannibalized(i) == isCannibalizedIn(ScoreReport, ScoreInput[i].keyword)

\* the score of candidate i of the call, in hundredths
ScoreAt(i) == scoreOf(ScoreInput[i], Cannibalized(i))

Tallied == <<kw.result.plan.primary>> \o kw.result.plan.secondary

\* the number of tallied candidates with the intent
Tally(intent) == Cardinality({i \in DOMAIN Tallied : Tallied[i].intent = intent})

\* the place where the intent first occurs among the tallied candidates
FirstSeen(intent) ==
  CHOOSE i \in DOMAIN Tallied :
    Tallied[i].intent = intent /\ \A j \in 1..(i - 1) : Tallied[j].intent # intent

\* C14: intentProfile is an intent of the primary or a secondary candidate
\* that no other intent outnumbers, and among the intents with that count
\* the one that occurs first in the list primary, secondary[1], ...
C14_MajorityIntentFirstSeen ==
  Scored =>
    LET profile == kw.result.plan.intentProfile
    IN /\ \E i \in DOMAIN Tallied : Tallied[i].intent = profile
       /\ \A i \in DOMAIN Tallied :
            /\ Tally(Tallied[i].intent) <= Tally(profile)
            /\ Tally(Tallied[i].intent) = Tally(profile) =>
                 FirstSeen(profile) <= FirstSeen(Tallied[i].intent)

\* a plan in which two intents tie for the highest count, each counted twice
\* or more
C14_Witness ==
  /\ Scored
  /\ \E i \in DOMAIN Tallied :
       /\ Tallied[i].intent # kw.result.plan.intentProfile
       /\ Tally(Tallied[i].intent) = Tally(kw.result.plan.intentProfile)
       /\ Tally(kw.result.plan.intentProfile) >= 2

(***************************************************************************)
(* Properties of checkCannibalization                                      *)
(***************************************************************************)
\* a call of checkCannibalization that returned
Checked == kw.pc = "returned" /\ kw.op = "checkCannibalization"

CheckInput == candidatesOf(kw.list)

\* the corpus the call loaded
CheckCorpus == loadExistingArticles(kw.historyFile, kw.clustersFile)

\* some overlapping article of the result has a similarity above 0.6
OverlapsAbove(r) ==
  \E k \in DOMAIN r.overlappingArticles : r.overlappingArticles[k].similarity > 60

\* C15: every result returned by checkCannibalization has isCannibalized =
\* true if and only if one of its overlapping articles has a similarity
\* strictly greater than 0.6, whatever flag the collaborator returned.
C15_FlagIffOverlapAbove ==
  Checked =>
    \A i \in DOMAIN kw.result.results :
      kw.result.results[i].isCannibalized <=> OverlapsAbove(kw.result.results[i])

\* a result returned as not cannibalized although it overlaps an article
\* with similarity 0.9
C15_Witness ==
  /\ Checked
  /\ \E i \in DOMAIN kw.result.results :
       /\ ~kw.result.results[i].isCannibalized
       /\ \E k \in DOMAIN kw.result.results[i].overlappingArticles :
            kw.result.results[i].overlappingArticles[k].similarity = 90

\* C16: when the completion throws or its response cannot be parsed,
\* checkCannibalization returns normally with one result per candidate, in
\* the order of the candidates, each not cannibalized and with no
\* overlapping article.
C16_FailOpen ==
  (Checked /\ kw.reply.kind \in {"throws", "unparsable"}) =>
    /\ kw.result.ok
    /\ Len(kw.result.results) = Len(CheckInput)
    /\ \A i \in DOMAIN CheckInput :
         /\ kw.result.results[i].keyword = CheckInput[i].keyword
         /\ kw.result.results[i].isCannibalized = FALSE
         /\ kw.result.results[i].overlappingArticles = <<>>

\* the completion was requested for a non-empty corpus and its response
\* could not be parsed; more than ten candidates were given
C16_Witness ==
  /\ Checked
  /\ kw.reply.kind = "unparsable"
  /\ kw.result.calls = 1
  /\ Len(CheckInput) > 10
  /\ Len(kw.result.results) = Len(CheckInput)

\* C17: with a non-empty corpus exactly one completion is requested, for the
\* keywords of the first 10 candidates in their order; the results end with one
\* result for every candidate from position 11 on, in order, not
\* cannibalized and with no overlapping article.
C17_OnlyFirstTenSubmitted ==
  (Checked /\ Len(CheckCorpus) > 0) =>
    LET n == Len(CheckInput)
        shift == Len(kw.result.results) - n
    IN /\ kw.result.calls = 1
       /\ kw.result.submitted =
            << [i \in 1..Min(n, 10) |-> CheckInput[i].keyword] >>
       /\ Len(kw.result.results) >= n - Min(n, 10)
       /\ \A i \in 11..n :
            /\ kw.result.results[shift + i].keyword = CheckInput[i].keyword
            /\ kw.result.results[shift + i].isCannibalized = FALSE
            /\ kw.result.results[shift + i].overlappingArticles = <<>>

\* eleven candidates, the last with the keyword of the first: the
\* collaborator marks all it was asked about, the tenth included, and the
\* eleventh is returned as not cannibalized
C17_Witness ==
  /\ Checked
  /\ Len(CheckCorpus) > 0
  /\ Len(CheckInput) = 11
  /\ CheckInput[11].keyword = CheckInput[1].keyword
  /\ kw.reply.kind = "each"
  /\ Len(kw.result.results) = 11
  /\ kw.result.results[1].isCannibalized
  /\ kw.result.results[10].isCannibalized
  /\ ~kw.result.results[11].isCannibalized

(***************************************************************************)
(* Properties of loadExistingArticles                                      *)
(***************************************************************************)
\* a call of loadExistingArticles that returned
Loaded == kw.pc = "returned" /\ kw.op = "loadExistingArticles"

\* the records of history.json followed by the articles of the clusters, as
\* far as the two files can be read
Occurrences ==
  (IF kw.historyFile.exists /\ kw.historyFile.parses
   THEN kw.historyFile.data.records ELSE <<>>)
  \o (IF kw.clustersFile.exists /\ kw.clustersFile.parses
      THEN visitedArticles(kw.clustersFile.data, 1) ELSE <<>>)

\* C18: the loaded corpus holds no two entries with the same slug; of the
\* history records and cluster articles with one slug, history first, only
\* the first one that has a title is kept.
C18_NoSlugTwice ==
  Loaded =>
    /\ \A i, j \in DOMAIN kw.result :
         kw.result[i].slug = kw.result[j].slug => i = j
    /\ \A i \in DOMAIN kw.result :
         \E k \in DOMAIN Occurrences :
           /\ Occurrences[k] = kw.result[i]
           /\ \A h \in 1..(k - 1) :
                Occurrences[h].slug # kw.result[i].slug \/ Occurrences[h].title = ""

\* two records of the history with one slug, both in the loaded corpus
C18_Witness ==
  /\ Loaded
  /\ kw.historyFile.exists /\ kw.historyFile.parses
  /\ \E i, j \in DOMAIN kw.result :
       /\ i < j
       /\ kw.result[i].slug = kw.result[j].slug
       /\ kw.result[i] = kw.historyFile.data.records[1]
       /\ kw.result[j] = kw.historyFile.data.records[2]

(***************************************************************************)
(* Properties of researchKeywords                                          *)
(***************************************************************************)
\* a call of researchKeywords that returned its metrics
Researched == kw.pc = "returned" /\ kw.op = "researchKeywords" /\ kw.result.ok

SearchIntents == {"informational", "commercial", "transactional", "navigational"}

\* C19: every KeywordMetrics returned by researchKeywords has its
\* estimatedVolume among high, medium, low and very_low, its
\* estimatedDifficulty a number from 0 to 100, its trend among rising,
\* stable and declining and its intent among the four search intents,
\* whatever the fields of the collaborator's response hold.
C19_FieldsInDomain ==
  Researched =>
    \A i \in DOMAIN kw.result.metrics :
      LET m == kw.result.metrics[i]
      IN /\ m.estimatedVolume \in Range(validVolumes)
         /\ ~m.estimatedDifficulty.nan
         /\ m.estimatedDifficulty.v >= 0
         /\ m.estimatedDifficulty.v <= 100
         /\ m.trend \in Range(validTrends)
         /\ m.intent \in SearchIntents

\* a response whose entry has no estimatedDifficulty: the metric is returned
\* with NaN as its difficulty
C19_Witness ==
  /\ Researched
  /\ \E i \in DOMAIN kw.result.metrics :
       /\ kw.reply.metrics[i].estimatedDifficulty = Undefined
       /\ kw.result.metrics[i].estimatedDifficulty = NaN

(***************************************************************************)
(* Properties of expandLongTails                                           *)
(***************************************************************************)
\* a call of expandLongTails that ended
Expanded == kw.pc = "returned" /\ kw.op = "expandLongTails"

\* no provider answered: each is unavailable or threw
ProvidersFailed ==
  \A p \in DOMAIN kw.providers :
    ~kw.providers[p].available
    \/ ~suggestionsOf(kw.providers[p], 1, kw.primaryKeyword).ok

\* C20: when the providers fail and the completion fails too, expandLongTails
\* raises no error and returns the empty list.
C20_EmptyWhenBothFail ==
  (Expanded /\ ProvidersFailed /\ kw.reply.kind \in {"throws", "unparsable"}) =>
    /\ kw.result.ok
    /\ kw.result.list = <<>>

\* the one provider threw, the completion threw, and the call ended with
\* that error
C20_Witness ==
  /\ Expanded
  /\ Len(kw.providers) = 1
  /\ kw.providers[1].available
  /\ ~suggestionsOf(kw.providers[1], 1, kw.primaryKeyword).ok
  /\ kw.reply.kind = "throws"
  /\ kw.result = Thrown

(***************************************************************************)
(* Properties of buildKeywordPlan                                          *)
(***************************************************************************)
\* C29: scoreAndPrioritize returns a plan with a primary keyword, and does
\* not throw, for every candidate list researchKeywords returns, the empty
\* list included.
C29_PlanForEveryResearch ==
  (kw.pc = "returned" /\ kw.op = "buildKeywordPlan" /\ kw.result.research.ok) =>
    /\ kw.result.ok
    /\ kw.result.plan.primary \in Range(classified(kw.result.research.metrics, kw.intent))

\* researchKeywords returned candidates and the plan's primary is one of them
C29_Witness ==
  /\ kw.pc = "returned" /\ kw.op = "buildKeywordPlan"
  /\ kw.result.ok
  /\ Len(kw.result.research.metrics) = 2
  /\ kw.result.plan.primary.keyword = <<"e","v">>

(***************************************************************************)
(* Properties of the cluster store: growth and persistence                 *)
(***************************************************************************)
\* list a is the beginning of list b
IsPrefix(a, b) == Len(a) <= Len(b) /\ SubSeq(b, 1, Len(a)) = a

\* C24: no call of classifyTopic, classifyTopicWithEmbeddings or
\* addArticleToCluster removes a cluster, changes the id or the pillarTopic
\* of a cluster, or removes an article or a keyword: every cluster stays at
\* its place and its lists of articles and keywords only grow at the end.
C24_OnlyGrows ==
  [][ /\ Len(clusters') >= Len(clusters)
      /\ \A i \in DOMAIN clusters :
           /\ clusters'[i].id = clusters[i].id
           /\ clusters'[i].pillarTopic = clusters[i].pillarTopic
           /\ IsPrefix(clusters[i].articles, clusters'[i].articles)
           /\ IsPrefix(clusters[i].keywords, clusters'[i].keywords)
    ]_vars

\* after three calls the store holds two clusters, one of them with an
\* article and with more keywords than it was created with
C24_Witness ==
  /\ now = MaxTime
  /\ Len(clusters) = 2
  /\ res.op = "addArticleToCluster"
  /\ res.outcome = "added"
  /\ \E i \in DOMAIN clusters :
       /\ Len(clusters[i].articles) = 1
       /\ Len(clusters[i].keywords) >
            Len(unique(allWordsOf(clusters[i].pillarTopic, <<>>)))

\* C26: when a client is configured, clusters exist, every embedding call
\* succeeds and no cluster's cosine similarity exceeds 0.75,
\* classifyTopicWithEmbeddings creates a new cluster and returns isNew = true
\* with contentType 'pillar'; no existing cluster is matched.
C26_NoEmbeddingMatchCreates ==
  (res.op = "classifyTopicWithEmbeddings" /\ res.path = "no match") =>
    /\ res.result.isNew
    /\ res.result.contentType = "pillar"
    /\ clusters[Len(clusters)].id = res.result.clusterId
    /\ clusters[Len(clusters)].articles = <<>>

\* no cosine similarity exceeded 0.75, and the call returned an existing
\* cluster, after writing the store with the topic's words merged into it
C26_Witness ==
  /\ res.op = "classifyTopicWithEmbeddings"
  /\ res.path = "no match"
  /\ res.calls = Len(clusters) + 1
  /\ ~res.result.isNew
  /\ res.saved

(***************************************************************************)
(* Pipeline runs over the cluster file                                     *)
(***************************************************************************)
\* number of pipeline runs
MaxRuns == 3

\* a topic-clusters.json that JSON.parse rejects
CorruptFile == [exists |-> TRUE, corrupt |-> TRUE]

\* a constructor that starts every instance with an empty list
loadClustersFresh(f) == <<>>

\* loadClusters: the parsed file, the empty list when there is no file or
\* when reading or parsing it throws
loadClusters(f) ==
  IF f.exists /\ "corrupt" \notin DOMAIN f THEN f.content ELSE <<>>

\* the topics the runs get from getTopicForArticle, as positions in
\* ClassifyInputs
PipeInputs == {3, 5, 6}

\* the articles the runs publish, as positions in ArticleInputs
PipeArticles == {1, 3}

\* the answers of the embedding calls of one classification over n clusters:
\* the first call throws, the first cluster is close to the topic, or no
\* cluster is
PipeResponses(n) ==
  IF n = 0 THEN {<<>>}
  ELSE { [k \in 1..(n + 1) |-> Throw],
         [k \in 1..(n + 1) |->
            [ok |-> TRUE,
             embedding |-> IF k <= 2 THEN <<1, 0, 0, 0, 0>> ELSE <<0, 0, 0, 0, 0>>]],
         [k \in 1..(n + 1) |->
            [ok |-> TRUE,
             embedding |-> IF k = 1 THEN <<1, 0, 0, 0, 0>> ELSE <<0, 0, 0, 0, 0>>]] }

\* clusterResult before step 3
NoResult == [clusterId |-> MissingId, contentType |-> "none", isNew |-> FALSE]

\* a run that has not started
RunIdle == [pc |-> "idle", clusters |-> <<>>, result |-> NoResult, outcome |-> "none"]

\* an article recorded as a pillar whatever the classification returned
articleAsPillar(a, clusterResult) ==
  [ArticleInputs[a] EXCEPT !.contentType = "pillar"]

\* the article of step 19: contentType is clusterResult.contentType
articleOf(a, clusterResult) ==
  [ArticleInputs[a] EXCEPT !.contentType = clusterResult.contentType]

\* a step 19 that reads the list of clusters from the file again
clustersReloaded(run, f) == loadClusters(f)

\* the list step 19 works on: the one of the run's own clusterService
clustersOfRun(run, f) == run.clusters

\* what the file holds: its clusters and their articles
Persisted(f) ==
  LET cs == IF f.exists /\ "corrupt" \notin DOMAIN f THEN f.content ELSE <<>>
  IN { [cluster |-> cs[i].id, slug |-> ""] : i \in DOMAIN cs }
     \cup UNION { { [cluster |-> cs[i].id, slug |-> cs[i].articles[n].slug]
                    : n \in DOMAIN cs[i].articles } : i \in DOMAIN cs }

Running(run) == run.pc \in {"constructed", "classified"}

PipeInit ==
  /\ clusters = <<>>
  /\ file \in {NoFile, CorruptFile}
  /\ openaiClient = TRUE
  /\ diskWritable \in BOOLEAN
  /\ nextId = 1
  /\ now = 0
  /\ res = [op |-> "constructor"]
  /\ sim = SimIdle
  /\ sel = SelIdle
  /\ kw = KwIdle
  /\ dash = DashIdle
  /\ pipe \in { [ pc |-> "running", serial |-> m, runs |-> [r \in 1..MaxRuns |-> RunIdle],
                  persisted |-> {}, last |-> [op |-> "none"] ] : m \in BOOLEAN }

\* new TopicClusterService(...): the run gets its own list, loaded from the
\* file as it is now.  With serial set, a run starts only when no other is
\* under way.
StartRun ==
  /\ pipe.pc = "running"
  /\ \E r \in 1..MaxRuns :
       /\ pipe.runs[r].pc = "idle"
       /\ \A q \in 1..(r - 1) : pipe.runs[q].pc # "idle"
       /\ pipe.serial => \A q \in 1..MaxRuns : ~Running(pipe.runs[q])
       /\ pipe' = [pipe EXCEPT
                     !.runs[r] = [RunIdle EXCEPT !.pc = "constructed",
                                                 !.clusters = loadClusters(file)],
                     !.last = [op |-> "construct", run |-> r, found |-> file,
                               changed |-> FALSE]]
  /\ UNCHANGED <<clusters, file, openaiClient, diskWritable, nextId, now, res, sim, sel, kw, dash>>

\* step 3: classifyTopicWithEmbeddings on the run's own service
ClassifyRun ==
  /\ pipe.pc = "running"
  /\ \E r \in 1..MaxRuns :
       /\ pipe.runs[r].pc = "constructed"
       /\ \E i \in PipeInputs, responses \in PipeResponses(Len(pipe.runs[r].clusters)) :
          \E c \in {classifyTopicWithEmbeddings(pipe.runs[r].clusters, openaiClient,
                                                ClassifyInputs[i].topic,
                                                ClassifyInputs[i].relatedQueries,
                                                nextId, now + 1, responses)} :
            /\ file' = saveClusters(c.clusters, c.saved, diskWritable)
            /\ nextId' = IF c.result.isNew THEN nextId + 1 ELSE nextId
            /\ now' = now + 1
            /\ pipe' = [pipe EXCEPT
                          !.runs[r] = [@ EXCEPT !.pc = "classified",
                                                !.clusters = c.clusters,
                                                !.result = c.result],
                          !.persisted = @ \cup Persisted(file'),
                          !.last = [op |-> "classify", run |-> r, found |-> file,
                                    changed |-> c.clusters # pipe.runs[r].clusters]]
  /\ UNCHANGED <<clusters, openaiClient, diskWritable, res, sim, sel, kw, dash>>

\* a step before step 19 throws (the connection test, the topic, the
\* keywords, the article, the publishing): the run ends without step 19
FailRun ==
  /\ pipe.pc = "running"
  /\ \E r \in 1..MaxRuns :
       /\ Running(pipe.runs[r])
       /\ pipe' = [pipe EXCEPT !.runs[r] = [@ EXCEPT !.pc = "failed"],
                               !.last = [op |-> "fail", run |-> r, found |-> file,
                                         changed |-> FALSE]]
  /\ UNCHANGED <<clusters, file, openaiClient, diskWritable, nextId, now, res, sim, sel, kw, dash>>

\* step 19, after the article was published: addArticleToCluster with the
\* clusterId and the contentType of the run's classification
AppendRun ==
  /\ pipe.pc = "running"
  /\ \E r \in 1..MaxRuns :
       /\ pipe.runs[r].pc = "classified"
       /\ \E a \in PipeArticles :
          \E u \in {addArticleToCluster(clustersOfRun(pipe.runs[r], file),
                                        pipe.runs[r].result.clusterId,
                                        articleOf(a, pipe.runs[r].result), now + 1)} :
            /\ file' = saveClusters(u.clusters, u.saved, diskWritable)
            /\ now' = now + 1
            /\ pipe' = [pipe EXCEPT
                          !.runs[r] = [@ EXCEPT !.pc = "done",
                                                !.clusters = u.clusters,
                                                !.outcome = u.outcome],
                          !.persisted = @ \cup Persisted(file'),
                          !.last = [op |-> "append", run |-> r, found |-> file,
                                    changed |-> u.clusters # pipe.runs[r].clusters]]
  /\ UNCHANGED <<clusters, openaiClient, diskWritable, nextId, res, sim, sel, kw, dash>>

PipeNext == StartRun \/ ClassifyRun \/ FailRun \/ AppendRun

PipeSpec == PipeInit /\ [][PipeNext]_vars

(***************************************************************************)
(* Properties of the pipeline runs                                         *)
(***************************************************************************)
\* the number of articles of a cluster recorded as pillar
Pillars(cluster) ==
  Cardinality({n \in DOMAIN cluster.articles : cluster.articles[n].contentType = "pillar"})

\* the lists of clusters there are: the one in the file and the one of
\* every run
ClusterLists ==
  { IF file.exists /\ "corrupt" \notin DOMAIN file THEN file.content ELSE <<>> }
    \cup { pipe.runs[r].clusters : r \in 1..MaxRuns }

\* C21: when the runs execute one after another, every cluster and every
\* article that was once written to the file is in the file ever after;
\* when two runs overlap, the later write of the whole list can drop what
\* the other run had written (the case the witness reaches).
C21_SerialKeepsPersisted ==
  pipe.serial => pipe.persisted \subseteq Persisted(file)

\* two overlapping runs, writes succeeding: an article that was in the file
\* is no longer there, while its cluster still is
C21_Witness ==
  /\ ~pipe.serial
  /\ diskWritable
  /\ \E x \in pipe.persisted :
       /\ x.slug # ""
       /\ x \notin Persisted(file)
       /\ [cluster |-> x.cluster, slug |-> ""] \in Persisted(file)

\* C22: when the runs execute one after another, every cluster holds at most
\* one article recorded as pillar, in the file and in the list of every run.
C22_OnePillarPerCluster ==
  pipe.serial =>
    \A cs \in ClusterLists : \A i \in DOMAIN cs : Pillars(cs[i]) <= 1

\* after runs one after another the file holds a cluster with a pillar
\* article followed by an article recorded as cluster
C22_Witness ==
  /\ pipe.serial
  /\ file.exists
  /\ "corrupt" \notin DOMAIN file
  /\ \E i \in DOMAIN file.content :
       /\ Len(file.content[i].articles) = 2
       /\ file.content[i].articles[1].contentType = "pillar"
       /\ file.content[i].articles[2].contentType = "cluster"

\* C23: a run reaches addArticleToCluster only with the result of its own
\* classification; the cluster of that result is in the run's own list, so
\* the call ends as added or as duplicate, never as not found, and an added
\* article carries the contentType the classification returned.  A run that
\* failed or has not come that far has made no such call.
C23_AppendFindsCluster ==
  \A r \in 1..MaxRuns :
    LET run == pipe.runs[r]
    IN /\ run.pc = "done" =>
            /\ run.result # NoResult
            /\ run.outcome \in {"added", "duplicate"}
            /\ \E i \in DOMAIN run.clusters :
                 /\ run.clusters[i].id = run.result.clusterId
                 /\ run.outcome = "added" =>
                      run.clusters[i].articles[Len(run.clusters[i].articles)].contentType
                        = run.result.contentType
       /\ run.pc # "done" => run.outcome = "none"
       /\ run.pc \in {"idle", "constructed"} => run.result = NoResult

\* a run added its article to a cluster that the file does not hold, as no
\* write succeeds
C23_Witness ==
  /\ ~diskWritable
  /\ \E r \in 1..MaxRuns :
       /\ pipe.runs[r].pc = "done"
       /\ pipe.runs[r].outcome = "added"
       /\ [cluster |-> pipe.runs[r].result.clusterId, slug |-> ""] \notin Persisted(file)

\* C25: after a classification or an append that changed the list of a run,
\* the file holds exactly that list, provided the write succeeds; a run that
\* finds no file or a corrupt one starts with the empty list, without an
\* error.
C25_FileEqualsMemory ==
  /\ ( pipe.last.op \in {"classify", "append"} /\ pipe.last.changed /\ diskWritable )
       => file = [exists |-> TRUE, content |-> pipe.runs[pipe.last.run].clusters]
  /\ ( pipe.last.op = "construct"
       /\ (~pipe.last.found.exists \/ "corrupt" \in DOMAIN pipe.last.found) )
       => /\ pipe.runs[pipe.last.run].pc = "constructed"
          /\ pipe.runs[pipe.last.run].clusters = <<>>

\* a run that found a corrupt file created a cluster, and the file now holds
\* the list with that one cluster
C25_Witness ==
  /\ pipe.last.op = "classify"
  /\ pipe.last.changed
  /\ pipe.last.found = CorruptFile
  /\ file.exists
  /\ "corrupt" \notin DOMAIN file
  /\ Len(file.content) = 1
  /\ file.content = pipe.runs[pipe.last.run].clusters

(***************************************************************************)
(* The dashboard run controller                                           *)
(***************************************************************************)
\* lib/pipeline: one shared state object, runPipeline calls that suspend
\* at their awaits, the 10 minute timer, the backend child of each run,
\* cancelPipeline and resetPipeline

\* runPipeline calls per behaviour
MaxDashRuns == 2

\* the clock counts minutes; no instant after this one is reached
MaxMinutes == 14

\* STALE_TIMEOUT_MS = 12 * 60 * 1000, in minutes
STALE_TIMEOUT_MS == 12

\* setTimeout(..., 10 * 60 * 1000), in minutes
FetchTimeout == 10

\* no controller, no start time, no article id
NoRun == 0

\* a runPipeline call: pc is the await it is suspended at ("history":
\* addToHistory, "fetch": the backend call, "success" and "failure":
\* updateHistoryRecord in the try and in the catch block, "done": settled);
\* signal is the controller whose signal the fetch was given, timer the
\* minute the timeout fires (0: none), child the backend child process.
\* started, interrupted and overlapped record the history of the call.
NewRun(started, overlapped) ==
  [pc |-> "history", started |-> started, signal |-> NoRun, timer |-> 0,
   child |-> "none", interrupted |-> FALSE, overlapped |-> overlapped]

InFlight(run) == run.pc # "done"

\* isRunning of runPipeline
isRunning(d) == d.step # "idle" /\ d.step # "complete" /\ d.step # "failed"

\* isStale of runPipeline
isStale(d) ==
  d.pipelineStartTime # NoRun /\ d.clock - d.pipelineStartTime > STALE_TIMEOUT_MS

\* a write of run w (in its handling named kind) to a shared field that
\* belongs to another run
Foreign(w, kind, field, owner) ==
  IF owner = NoRun \/ owner = w THEN {}
  ELSE {[writer |-> w, kind |-> kind, field |-> field, owner |-> owner]}

\* log(): replaces the logs of the current status
log(d, w, kind) ==
  [d EXCEPT !.foreign = @ \cup Foreign(w, kind, "currentStatus", d.articleId)]

\* updateStatus({step, ...}): merges into the current status, whose
\* topic and articleId stay
updateStatus(d, w, kind, step) ==
  [d EXCEPT !.step = step,
            !.foreign = @ \cup Foreign(w, kind, "currentStatus", d.articleId)]

\* resetPipeline(): a new idle status, no start time; the controller stays
resetPipeline(d) ==
  [d EXCEPT !.step = "idle", !.articleId = NoRun,
            !.pipelineStartTime = NoRun, !.startOwner = NoRun]

\* the finally block of runPipeline
cleanup(d, w) ==
  [d EXCEPT !.abortController = NoRun,
            !.pipelineStartTime = NoRun, !.startOwner = NoRun,
            !.foreign = @ \cup Foreign(w, "cleanup", "abortController", d.abortController)
                          \cup Foreign(w, "cleanup", "pipelineStartTime", d.startOwner)]

\* every call in flight has seen a cancel or a reset
interruptAll(d) ==
  [d EXCEPT !.runs = [i \in DOMAIN d.runs |->
                        IF InFlight(d.runs[i])
                        THEN [d.runs[i] EXCEPT !.interrupted = TRUE]
                        ELSE d.runs[i]]]

DashInit ==
  /\ ClusterIdle /\ sim = SimIdle /\ sel = SelIdle /\ kw = KwIdle /\ pipe = PipeIdle
  /\ dash = [pc |-> "serving", step |-> "idle", articleId |-> NoRun,
             pipelineStartTime |-> NoRun, startOwner |-> NoRun,
             abortController |-> NoRun, aborted |-> {}, clock |-> 1,
             runs |-> <<>>, rejected |-> FALSE, foreign |-> {}]

\* POST /api/generate without action: runPipeline up to its first await
runPipeline ==
  /\ dash.pc = "serving"
  /\ Len(dash.runs) < MaxDashRuns
  /\ IF isRunning(dash) /\ ~isStale(dash)
     THEN dash' = [dash EXCEPT !.rejected = TRUE]
     ELSE LET id == Len(dash.runs) + 1
              d0 == IF isStale(dash) THEN resetPipeline(dash) ELSE dash
              earlier == {i \in DOMAIN dash.runs :
                            /\ InFlight(dash.runs[i])
                            /\ ~(dash.clock - dash.runs[i].started > STALE_TIMEOUT_MS)}
          IN dash' = [d0 EXCEPT !.abortController = id,
                                !.pipelineStartTime = dash.clock,
                                !.startOwner = id,
                                !.step = "connecting",
                                !.articleId = id,
                                !.runs = Append(@, NewRun(dash.clock, earlier))]
  /\ UNCHANGED <<clusterVars, sim, sel, kw, pipe>>

\* addToHistory settles; on success the timer is set and the backend is
\* called with the signal of the controller the state holds by then
addToHistory ==
  /\ dash.pc = "serving"
  /\ \E r \in DOMAIN dash.runs : \E ok \in BOOLEAN :
       /\ dash.runs[r].pc = "history"
       /\ IF ~ok
          THEN dash' = [dash EXCEPT !.runs[r].pc = "done"]
          ELSE LET d1 == log([dash EXCEPT !.runs[r].timer = dash.clock + FetchTimeout],
                             r, "call")
               IN IF d1.abortController = NoRun
                  THEN dash' = [log(d1, r, "failure") EXCEPT !.runs[r].pc = "failure"]
                  ELSE dash' = [d1 EXCEPT
                                  !.runs[r].pc = "fetch",
                                  !.runs[r].signal = d1.abortController,
                                  !.runs[r].child =
                                     IF d1.abortController \in d1.aborted
                                     THEN "none" ELSE "running"]
  /\ UNCHANGED <<clusterVars, sim, sel, kw, pipe>>

\* a line of the child's output: setStep of the backend route
setStep ==
  /\ dash.pc = "serving"
  /\ \E r \in DOMAIN dash.runs :
       /\ dash.runs[r].child = "running"
       /\ dash' = updateStatus(log(dash, r, "progress"), r, "progress", "content")
  /\ UNCHANGED <<clusterVars, sim, sel, kw, pipe>>

\* the child closes and the backend route answers; a fetch that is still
\* pending, its signal not aborted, clears the timer and goes on to the
\* success or the failure path
respond ==
  /\ dash.pc = "serving"
  /\ \E r \in DOMAIN dash.runs : \E ok \in BOOLEAN :
       /\ dash.runs[r].child = "running"
       /\ LET d1 == [dash EXCEPT !.runs[r].child = "closed"]
          IN IF dash.runs[r].pc # "fetch" \/ dash.runs[r].signal \in dash.aborted
             THEN dash' = d1
             ELSE IF ok
             THEN dash' = [log(d1, r, "success") EXCEPT !.runs[r].pc = "success",
                                                        !.runs[r].timer = 0]
             ELSE dash' = [log(d1, r, "failure") EXCEPT !.runs[r].pc = "failure",
                                                        !.runs[r].timer = 0]
  /\ UNCHANGED <<clusterVars, sim, sel, kw, pipe>>

\* the fetch rejects with an AbortError; the timer is not cleared
aborted ==
  /\ dash.pc = "serving"
  /\ \E r \in DOMAIN dash.runs :
       /\ dash.runs[r].pc = "fetch"
       /\ dash.runs[r].signal \in dash.aborted
       /\ dash' = [log(dash, r, "failure") EXCEPT !.runs[r].pc = "failure"]
  /\ UNCHANGED <<clusterVars, sim, sel, kw, pipe>>

\* updateHistoryRecord of the try block settles: status complete and the
\* finally block, or the catch block
published ==
  /\ dash.pc = "serving"
  /\ \E r \in DOMAIN dash.runs : \E ok \in BOOLEAN :
       /\ dash.runs[r].pc = "success"
       /\ IF ok
          THEN dash' = [cleanup(updateStatus(dash, r, "success", "complete"), r)
                          EXCEPT !.runs[r].pc = "done"]
          ELSE dash' = [log(dash, r, "failure") EXCEPT !.runs[r].pc = "failure"]
  /\ UNCHANGED <<clusterVars, sim, sel, kw, pipe>>

\* updateHistoryRecord of the catch block settles: status failed and the
\* finally block
failed ==
  /\ dash.pc = "serving"
  /\ \E r \in DOMAIN dash.runs :
       /\ dash.runs[r].pc = "failure"
       /\ dash' = [cleanup(updateStatus(dash, r, "failure", "failed"), r)
                     EXCEPT !.runs[r].pc = "done"]
  /\ UNCHANGED <<clusterVars, sim, sel, kw, pipe>>

\* the timer of a run fires: it aborts the controller the state holds now
timeout ==
  /\ dash.pc = "serving"
  /\ \E r \in DOMAIN dash.runs :
       /\ dash.runs[r].timer # 0
       /\ dash.runs[r].timer <= dash.clock
       /\ dash' = [dash EXCEPT
                     !.runs[r].timer = 0,
                     !.aborted = IF dash.abortController = NoRun THEN @
                                 ELSE @ \cup {dash.abortController},
                     !.foreign = @ \cup Foreign(r, "timeout", "abortController",
                                                dash.abortController)]
  /\ UNCHANGED <<clusterVars, sim, sel, kw, pipe>>

\* POST /api/generate with action 'cancel'
cancelPipeline ==
  /\ dash.pc = "serving"
  /\ LET d1 == IF dash.abortController = NoRun THEN dash
               ELSE [dash EXCEPT !.aborted = @ \cup {dash.abortController}]
     IN dash' = interruptAll(resetPipeline(d1))
  /\ UNCHANGED <<clusterVars, sim, sel, kw, pipe>>

\* DELETE /api/generate
reset ==
  /\ dash.pc = "serving"
  /\ dash' = interruptAll(resetPipeline(dash))
  /\ UNCHANGED <<clusterVars, sim, sel, kw, pipe>>

\* the instants at which the passing of time changes what can happen: a
\* timer fires, a start time or a call becomes older than 12 minutes
instants(d) ==
  {d.runs[r].timer : r \in {i \in DOMAIN d.runs : d.runs[i].timer # 0}}
    \cup {d.runs[r].started + STALE_TIMEOUT_MS + 1 :
            r \in {i \in DOMAIN d.runs : InFlight(d.runs[i])}}
    \cup (IF d.pipelineStartTime = NoRun THEN {}
          ELSE {d.pipelineStartTime + STALE_TIMEOUT_MS + 1})

\* time passes up to the next such instant; a timer that is due fires first
tick ==
  /\ dash.pc = "serving"
  /\ \A r \in DOMAIN dash.runs :
       dash.runs[r].timer = 0 \/ dash.runs[r].timer > dash.clock
  /\ \E t \in instants(dash) :
       /\ t > dash.clock /\ t <= MaxMinutes
       /\ \A u \in instants(dash) : u > dash.clock => t <= u
       /\ dash' = [dash EXCEPT !.clock = t]
  /\ UNCHANGED <<clusterVars, sim, sel, kw, pipe>>

DashNext ==
  \/ runPipeline \/ addToHistory \/ setStep \/ respond \/ aborted
  \/ published \/ failed \/ timeout \/ cancelPipeline \/ reset \/ tick

DashSpec == DashInit /\ [][DashNext]_vars

(***************************************************************************)
(* Properties of the dashboard run controller                             *)
(***************************************************************************)

\* C27: every runPipeline call that got past the 'Pipeline is already
\* running' guard did so while no earlier call was still executing, or
\* while the ones still executing were older than 12 minutes; also when
\* cancelPipeline or resetPipeline was called during a run.
C27_OneRunInFlight ==
  dash.pc = "serving" =>
    \A r \in DOMAIN dash.runs : dash.runs[r].overlapped = {}

\* C28: the success, failure and cleanup handling of a run that was
\* cancelled or reset never writes the status, the abort controller or
\* the start time of a run started after it.
C28_OldRunLeavesNewAlone ==
  dash.pc = "serving" =>
    \A p \in dash.foreign :
      ~ /\ p.kind \in {"success", "failure", "cleanup"}
        /\ dash.runs[p.writer].interrupted
        /\ p.writer < p.owner

====
